---- MODULE Spec2Model ----
\* A model of text_image_generator.py (TextImageGenerator): the debounced
\* preview scheduler, the single-worker executor, the layout arithmetic of the
\* colour and mask passes, the single export and the font catalog scan.
EXTENDS Integers, Sequences, FiniteSets, TLC

\* ---------------------------------------------------------------- bounds
\* how many UI events a run of the preview scheduler (Spec) has
MaxChanges == 2
\* how many UI events a run of the export pipeline (SpecExport) has, the
\* clicks on the export button included
MaxExportEvents == 3
\* how many UI events a run of the whole system (SpecSystem) has
MaxSystemEvents == 1
\* the measured box is canvasSize + d wide and high, d in -MaxSlack..MaxSlack
MaxSlack == 2
\* padding values -MaxPad..MaxPad
MaxPad == 2
\* left/top offsets of the measured box, -MaxOffset..MaxOffset
MaxOffset == 1
\* how many rescan requests a run has
MaxRescans == 1

\* ---------------------------------------------------------------- strings
\* Python strings are sequences of one-character strings.

UpperCase == <<"A","B","C","D","E","F","G","H","I","J","K","L","M",
               "N","O","P","Q","R","S","T","U","V","W","X","Y","Z">>
LowerCase == <<"a","b","c","d","e","f","g","h","i","j","k","l","m",
               "n","o","p","q","r","s","t","u","v","w","x","y","z">>

\* str.lower() on one character
LowerChar(c) ==
    IF \E i \in 1..26 : UpperCase[i] = c
    THEN LowerCase[CHOOSE i \in 1..26 : UpperCase[i] = c]
    ELSE c

\* str.lower()
Lower(s) == [i \in 1..Len(s) |-> LowerChar(s[i])]

\* s[i : i+len(pat)] == pat (1-based i)
MatchAt(s, pat, i) ==
    /\ i >= 1
    /\ i + Len(pat) - 1 <= Len(s)
    /\ SubSeq(s, i, i + Len(pat) - 1) = pat

\* the Python test  pat in s
Contains(s, pat) == \E i \in 1..(Len(s) + 1) : MatchAt(s, pat, i)

\* s.endswith(suf)
EndsWith(s, suf) ==
    Len(s) >= Len(suf) /\ SubSeq(s, Len(s) - Len(suf) + 1, Len(s)) = suf

\* s.startswith(pre)
StartsWith(s, pre) == Len(s) >= Len(pre) /\ SubSeq(s, 1, Len(pre)) = pre

\* ---------------------------------------------------------------- layout
\* The nine values of the position combo box.
TopLeft      == <<"T","o","p"," ","L","e","f","t">>
TopCenter    == <<"T","o","p"," ","C","e","n","t","e","r">>
TopRight     == <<"T","o","p"," ","R","i","g","h","t">>
MiddleLeft   == <<"M","i","d","d","l","e"," ","L","e","f","t">>
Center       == <<"C","e","n","t","e","r">>
MiddleRight  == <<"M","i","d","d","l","e"," ","R","i","g","h","t">>
BottomLeft   == <<"B","o","t","t","o","m"," ","L","e","f","t">>
BottomCenter == <<"B","o","t","t","o","m"," ","C","e","n","t","e","r">>
BottomRight  == <<"B","o","t","t","o","m"," ","R","i","g","h","t">>

Positions == {TopLeft, TopCenter, TopRight, MiddleLeft, Center, MiddleRight,
              BottomLeft, BottomCenter, BottomRight}

kw_left   == <<"l","e","f","t">>
kw_right  == <<"r","i","g","h","t">>
kw_top    == <<"t","o","p">>
kw_bottom == <<"b","o","t","t","o","m">>

\* the canvas sizes of the resolution radio buttons
CanvasSizes == {256, 512, 1024}

\* Python's // : floor division
FloorDiv(a, b) == a \div b

\* a bug variant: the centre rule rounding toward zero instead of flooring
ColorX_trunc(position, size, w, left, padding) ==
    LET pos == Lower(position)
        d   == size - w
    IN  IF Contains(pos, kw_left) THEN padding - left
        ELSE IF Contains(pos, kw_right) THEN size - w - left - padding
        ELSE (IF d >= 0 THEN d \div 2 ELSE -((-d) \div 2)) - left

\* create_text_image_pil: "Horizontal Position"
ColorX(position, size, w, left, padding) ==
    LET pos == Lower(position)
    IN  IF Contains(pos, kw_left) THEN padding - left
        ELSE IF Contains(pos, kw_right) THEN size - w - left - padding
        ELSE FloorDiv(size - w, 2) - left

\* create_text_image_pil: "Vertical Position"
ColorY(position, size, h, top, padding) ==
    LET pos == Lower(position)
    IN  IF Contains(pos, kw_top) THEN padding - top
        ELSE IF Contains(pos, kw_bottom) THEN size - h - top - padding
        ELSE FloorDiv(size - h, 2) - top

\* create_text_image_pil: the (x, y) handed to draw.text for a measured box
\* bbox = [left, top, right, bottom]
ColorXY(position, size, bbox, padding) ==
    LET w == bbox.right - bbox.left
        h == bbox.bottom - bbox.top
    IN  [x |-> ColorX(position, size, w, bbox.left, padding),
         y |-> ColorY(position, size, h, bbox.top, padding)]

\* create_mask_image: "Horizontal Position"
MaskX(position, size, w, left, padding) ==
    LET pos == Lower(position)
    IN  IF Contains(pos, kw_left) THEN padding - left
        ELSE IF Contains(pos, kw_right) THEN size - w - left - padding
        ELSE FloorDiv(size - w, 2) - left

\* create_mask_image: "Vertical Position"
MaskY(position, size, h, top, padding) ==
    LET pos == Lower(position)
    IN  IF Contains(pos, kw_top) THEN padding - top
        ELSE IF Contains(pos, kw_bottom) THEN size - h - top - padding
        ELSE FloorDiv(size - h, 2) - top

\* create_mask_image: the (x, y) handed to draw.text for a measured box
MaskXY(position, size, bbox, padding) ==
    LET w == bbox.right - bbox.left
        h == bbox.bottom - bbox.top
    IN  [x |-> MaskX(position, size, w, bbox.left, padding),
         y |-> MaskY(position, size, h, bbox.top, padding)]

\* ---------------------------------------------------------------- rasterizer
\* ImageFont.load_default()
DefaultFont == [name |-> "default", size |-> 0]

\* ImageDraw.textbbox((0, 0), text, font, align, spacing): the external
\* rasterizer's measurement, a deterministic function of its arguments
TextBBox(text, font_obj, align, spacing) ==
    IF Len(text) = 0
    THEN [left |-> 0, top |-> 0, right |-> 0, bottom |-> 0]
    ELSE [left |-> 1, top |-> 3,
          right |-> 1 + Len(text) * (6 + font_obj.size \div 2),
          bottom |-> 3 + 11 + font_obj.size]

\* the UI state create_text_image_pil and create_mask_image read while drawing
LiveFields(u) ==
    [outline_enabled |-> u.outline_enabled, outline_width |-> u.outline_width,
     text_color_rgb |-> u.text_color_rgb, outline_color_rgb |-> u.outline_color_rgb]

\* create_text_image_pil: the stroke arguments of its draw.text call
ColorStroke(live) ==
    IF live.outline_enabled
    THEN [width |-> live.outline_width, fill |-> live.outline_color_rgb]
    ELSE [width |-> 0, fill |-> <<>>]

\* create_text_image_pil: the image is what its one draw.text call paints on a
\* transparent size x size canvas, so it is represented by that call
CreateTextImagePil(text, size, font_obj, alignment, position, padding, line_spacing, live) ==
    LET align_lower == Lower(alignment)
        bbox == TextBBox(text, font_obj, align_lower, line_spacing)
        stroke == ColorStroke(live)
    IN  [mode |-> "RGBA", size |-> size,
         xy |-> ColorXY(position, size, bbox, padding),
         text |-> text, font |-> font_obj, fill |-> live.text_color_rgb,
         stroke_width |-> stroke.width, stroke_fill |-> stroke.fill,
         align |-> align_lower, spacing |-> line_spacing]

\* create_mask_image: fill and stroke are 255 on a zero canvas
CreateMaskImage(text, size, font_obj, alignment, position, padding, line_spacing, live) ==
    LET align_lower == Lower(alignment)
        bbox == TextBBox(text, font_obj, align_lower, line_spacing)
        stroke_w == IF live.outline_enabled THEN live.outline_width ELSE 0
    IN  [mode |-> "L", size |-> size,
         xy |-> MaskXY(position, size, bbox, padding),
         text |-> text, font |-> font_obj, fill |-> 255,
         stroke_width |-> stroke_w, stroke_fill |-> 255,
         align |-> align_lower, spacing |-> line_spacing]

\* ---------------------------------------------------------------- paths
s_color_png == <<"_","c","o","l","o","r",".","p","n","g">>
s_png       == <<".","p","n","g">>
s_trans_png == <<"_","t","r","a","n","s",".","p","n","g">>
s_vmat      == <<".","v","m","a","t">>
s_materials_seg == <<"/","m","a","t","e","r","i","a","l","s","/">>
s_materials == <<"m","a","t","e","r","i","a","l","s","/">>

\* str.replace(pat, ""): every non-overlapping occurrence, left to right
RECURSIVE RemoveAll(_, _)
RemoveAll(s, pat) ==
    IF Len(s) = 0 THEN <<>>
    ELSE IF MatchAt(s, pat, 1)
         THEN RemoveAll(SubSeq(s, Len(pat) + 1, Len(s)), pat)
         ELSE <<Head(s)>> \o RemoveAll(Tail(s), pat)

\* str.replace of one character by another
ReplaceChar(s, a, b) == [i \in 1..Len(s) |-> IF s[i] = a THEN b ELSE s[i]]

\* _perform_save: base_path
BasePath(save_path) == RemoveAll(RemoveAll(save_path, s_color_png), s_png)

\* a path of the Windows build: it starts with a drive letter and a colon
HasDrive(p) == Len(p) >= 2 /\ p[2] = ":"

\* os.path.abspath of an absolute, normalized path: ntpath turns every
\* separator into a backslash, posixpath leaves the path as it is
Abspath(p) == IF HasDrive(p) THEN ReplaceChar(p, "/", "\\") ELSE p

\* the index of the last "/" of s, 0 when there is none
LastSlash(s) ==
    IF \E i \in 1..Len(s) : s[i] = "/"
    THEN CHOOSE i \in 1..Len(s) : s[i] = "/" /\ \A j \in (i+1)..Len(s) : s[j] # "/"
    ELSE 0

\* str.rstrip("/")
RECURSIVE RStripSlash(_)
RStripSlash(s) ==
    IF Len(s) > 0 /\ s[Len(s)] = "/" THEN RStripSlash(SubSeq(s, 1, Len(s) - 1)) ELSE s

\* os.path.basename and os.path.dirname (ntpath splits the drive off first)
Drive(p) == IF HasDrive(p) THEN SubSeq(p, 1, 2) ELSE <<>>
NoDrive(p) == IF HasDrive(p) THEN SubSeq(p, 3, Len(p)) ELSE p
Basename(p) == LET r == NoDrive(p) IN SubSeq(r, LastSlash(r) + 1, Len(r))
Dirname(p) ==
    LET r == NoDrive(p)
        head == SubSeq(r, 1, LastSlash(r))
        stripped == RStripSlash(head)
    IN  Drive(p) \o (IF stripped = <<>> THEN head ELSE stripped)

\* a failure variant: the last occurrence
FirstIndex_last(s, pat) ==
    CHOOSE i \in 1..Len(s) : MatchAt(s, pat, i) /\ \A j \in (i+1)..Len(s) : ~MatchAt(s, pat, j)

\* the index of the first occurrence of pat in s (pat occurs in s)
FirstIndex(s, pat) ==
    CHOOSE i \in 1..Len(s) : MatchAt(s, pat, i) /\ \A j \in 1..(i-1) : ~MatchAt(s, pat, j)

\* get_relative_texture_path
GetRelativeTexturePath(absolute_path) ==
    LET normalized == ReplaceChar(absolute_path, "\\", "/")
    IN  IF Contains(normalized, s_materials_seg)
        THEN LET k == FirstIndex(normalized, s_materials_seg)
                 split_part == SubSeq(normalized, k + Len(s_materials_seg), Len(normalized))
             IN  s_materials \o split_part
        ELSE s_materials \o Basename(Dirname(normalized)) \o <<"/">> \o Basename(normalized)

\* generate_vmat_content: the fixed template with its three holes filled
GenerateVmatContent(shader, color_path, trans_path) ==
    [shader |-> shader, F_BLEND_MODE |-> "1",
     g_flModelTintAmount |-> "1.000",
     g_vColorTint |-> "[1.000000 1.000000 1.000000 0.000000]",
     TextureColor |-> color_path, g_bFogEnabled |-> "1",
     g_flOpacityScale |-> "1.000", TextureTranslucency |-> trans_path]


\* ---------------------------------------------------------------- state
\* program constants
DebounceDelay == 150
StartupDelay == 200
\* a bug variant: a pool of two workers
max_workers_two == 1 + 1
\* ThreadPoolExecutor(max_workers=1)
max_workers == 1
\* the granularity of modelled time, in ms
TickMs == 100

VARIABLES
    \* --- controlling thread (Tk event loop)
    ui,                 \* the UI variables and widgets the handlers read
    debounce_timer,     \* self.debounce_timer: 0 for None, else an after id
    timers,             \* pending root.after(ms, f) callbacks: [id, left, cb]
    timerSeq,           \* the next after id
    preview_req_id,     \* self.preview_req_id
    preview_image_ref,  \* the frame shown by preview_label: <<>> or <<frame>>
    afterQueue,         \* root.after(0, f) callbacks posted by the worker, FIFO
    progress,           \* progress bar / status label: "idle", "busy", "ok", "error"
    \* --- executor
    workQueue,          \* submitted tasks not yet started, FIFO
    running,            \* worker thread -> <<>> (idle) or <<task>>
    files,              \* the files written so far: a set of [name, content]
    \* --- font catalog
    available_fonts,    \* self.available_fonts
    font_paths,         \* self.font_paths
    cacheFile,          \* font_cache.json: <<>> (absent) or <<content>>
    scanThreads,        \* the _scan_fonts_thread threads: a sequence of thread states
    rescanPc,           \* where rescan_fonts_action is: "idle" or a step
    rescans,            \* rescan requests so far
    stamps,             \* which publication last wrote the name list / the mapping
    observed,           \* what a reader on the controlling thread last saw
    \* --- layout experiments
    layoutIn,           \* the inputs of one render: <<>> or <<[...]>>
    layoutOut,          \* its results: <<>> or <<[...]>>
    \* --- single function calls
    callIn,             \* the arguments of one call: <<>> or <<[...]>>
    callOut,            \* what the call returned: <<>> or <<...>>
    \* --- history (not program state)
    hist,
    budget              \* how many UI events the run may have

vars == <<ui, debounce_timer, timers, timerSeq, preview_req_id, preview_image_ref,
          afterQueue, progress, workQueue, running, files,
          available_fonts, font_paths, cacheFile, scanThreads, rescanPc,
          rescans, stamps, observed,
          layoutIn, layoutOut, callIn, callOut, hist, budget>>

previewVars == <<ui, debounce_timer, timers, timerSeq, preview_req_id,
                 preview_image_ref, afterQueue, progress, workQueue, running, files>>
catalogVars == <<available_fonts, font_paths, cacheFile, scanThreads, rescanPc,
                 rescans, stamps, observed>>
layoutVars  == <<layoutIn, layoutOut>>
callVars    == <<callIn, callOut>>

WorkerIds == 1..max_workers

t_sample == <<"S","A","M","P","L","E"," ","T","E","X","T">>
t_digit  == <<"7">>
t_space  == <<" ">>
White == <<255, 255, 255, 255>>
Black == <<0, 0, 0, 255>>

\* __init__: "Core State", "Colors", "Layers State", "Export"
InitUi ==
    [text |-> t_sample, size |-> 512, font_size |-> 50, font_family |-> <<"c","a","l","i","b","r","i">>,
     alignment |-> Center, position |-> Center, padding |-> 20, line_spacing |-> 4,
     outline_enabled |-> FALSE, outline_width |-> 4,
     text_color_rgb |-> White, outline_color_rgb |-> Black,
     mask |-> FALSE, vmat |-> FALSE, shader |-> "csgo_static_overlay.vfx",
     panel_w |-> 660, panel_h |-> 800]

InitHist ==
    [uiEvents |-> 0,        \* UI events so far
     changes |-> 0,         \* trigger_preview_update calls so far
     sinceChange |-> 0,     \* ms since the last call, capped above DebounceDelay
     bursts |-> 0,          \* calls that came after a quiet period, plus the first
     launches |-> 0,        \* runs of update_preview_thread_launcher
     launchesSince |-> 0,   \* ... since the last trigger_preview_update
     rendersSince |-> 0,    \* renders submitted since the last trigger_preview_update
     lastSubmit |-> <<>>,   \* the last submitted render request
     lastLaunchVersion |-> 0, \* hist.changes when the launcher last ran
     submitted |-> 0,       \* tasks submitted to the executor
     finished |-> 0,        \* tasks the executor finished
     lastApply |-> <<>>,    \* the last run of _apply_preview
     installs |-> 0,        \* frames installed, counted up to 2
     dropped |-> FALSE,     \* _apply_preview has discarded a result
     raisedReqs |-> {},     \* req_id of the renders that raised
     lastRender |-> <<>>,   \* [snap, image] of the last preview render drawn
     exportsStarted |-> 0,
     exports |-> <<>>,      \* the finished exports
     batches |-> <<>>]      \* the finished batch exports

PreviewInit ==
    /\ ui = InitUi
    /\ debounce_timer = 0
    /\ timers = {[id |-> 1, left |-> StartupDelay, cb |-> "trigger"]}
    /\ timerSeq = 2
    /\ preview_req_id = 0
    /\ preview_image_ref = <<>>
    /\ afterQueue = <<>>
    /\ progress = "idle"
    /\ workQueue = <<>>
    /\ running = [w \in WorkerIds |-> <<>>]
    /\ files = {}
    /\ hist = InitHist


\* ---------------------------------------------------------------- helpers
Min(a, b) == IF a <= b THEN a ELSE b
Max(a, b) == IF a >= b THEN a ELSE b

\* a bug variant: the pending debounce timer is not cancelled
AfterCancel_noop(ts, id) == ts

\* root.after_cancel(id): cancelling a fired or unknown id does nothing
AfterCancel(ts, id) == {t \in ts : t.id # id}

\* a bug variant: a counter that wraps around
IncrReqId_wrap(n) == (n + 1) % 2

\* update_preview_thread_launcher: self.preview_req_id += 1
IncrReqId(n) == n + 1

\* a bug variant: no staleness test
ApplyGuard_none(req_id, cur) == TRUE

\* _apply_preview: the result is used unless  req_id != self.preview_req_id
ApplyGuard(req_id, cur) == req_id = cur

\* get_font_object with an empty memo: the sized handle of a catalogued font,
\* else the built-in default font
GetFontObject(font_name, size, paths) ==
    IF font_name \in DOMAIN paths
    THEN [name |-> font_name, size |-> size]
    ELSE DefaultFont

\* a self.font_paths that is no container: json.load gave null, a number or a
\* boolean for "paths"
NoneDict == [n \in {<<"None">>} |-> <<>>]

\* if len(self._font_obj_cache) > 50
CacheLimit == 50

\* self._font_obj_cache = {}
EmptyCache == [k \in {} |-> DefaultFont]

\* get_font_object with the memo `cache`; loads: ImageFont.truetype succeeds.
\* The result is [raised, font, cache]: whether the call raised, the font it
\* returned (<<font>>) and the memo it leaves.
\* a failure variant: eviction drops one handle only
Evicted_one(cache) ==
    LET k == CHOOSE x \in DOMAIN cache : TRUE
    IN  [y \in DOMAIN cache \ {k} |-> cache[y]]

\* get_font_object: self._font_obj_cache.clear()
Evicted(cache) == EmptyCache

GetFontObjectCall(font_name, size, paths, cache, loads) ==
    LET cache_key == <<font_name, size>>
        font == [name |-> font_name, size |-> size]
        kept == IF Cardinality(DOMAIN cache) > CacheLimit THEN Evicted(cache) ELSE cache
        stored == [k \in DOMAIN kept \cup {cache_key} |->
                     IF k = cache_key THEN font ELSE kept[k]]
    IN  IF cache_key \in DOMAIN cache
        THEN [raised |-> FALSE, font |-> <<cache[cache_key]>>, cache |-> cache]
        ELSE IF paths = NoneDict
        THEN [raised |-> TRUE, font |-> <<>>, cache |-> cache]
        ELSE IF font_name \in DOMAIN paths /\ loads
        THEN [raised |-> FALSE, font |-> <<font>>, cache |-> stored]
        ELSE [raised |-> FALSE, font |-> <<DefaultFont>>, cache |-> cache]

\* a failure variant: the scale is not capped at 1
DisplaySize_uncapped(size, panel_w, panel_h) ==
    Max((size * Min(panel_w, panel_h)) \div size, 100)

\* _threaded_render: scale = min(panel_w, panel_h) / size, capped at 1;
\* display_size = max(int(size * scale), 100). The canvas sizes are powers of
\* two, so the float quotient is exact and size * scale is min(panel_w, panel_h).
DisplaySize(size, panel_w, panel_h) ==
    LET m == Min(panel_w, panel_h)
        scaled == IF m > size THEN size ELSE (size * m) \div size
    IN  Max(scaled, 100)

\* update_preview_thread_launcher: panel_w / panel_h as handed to the worker
PanelW(u) == IF u.panel_w < 200 THEN 500 ELSE u.panel_w
PanelH(u) == IF u.panel_h - 60 < 200 THEN 500 ELSE u.panel_h - 60

\* update_preview_thread_launcher: the arguments of _threaded_render
PreviewRequest(u, paths, req_id) ==
    [size |-> u.size,
     text |-> IF u.text = <<>> THEN t_space ELSE u.text,
     font_size |-> u.font_size,
     font_obj |-> GetFontObject(u.font_family, u.font_size, paths),
     alignment |-> u.alignment, position |-> u.position,
     padding |-> u.padding, line_spacing |-> u.line_spacing,
     panel_w |-> PanelW(u), panel_h |-> PanelH(u), req_id |-> req_id]

\* _gather_and_save: data
ExportData(u, paths) ==
    [size |-> u.size, text |-> u.text, font_size |-> u.font_size,
     font_obj |-> GetFontObject(u.font_family, u.font_size, paths),
     alignment |-> u.alignment, position |-> u.position,
     padding |-> u.padding, line_spacing |-> u.line_spacing,
     mask |-> u.mask, vmat |-> u.vmat, shader |-> u.shader]

\* a bug variant: the mask is written only with a material file
WritesMask_vmatOnly(data) == data.vmat

\* _perform_save: if data['mask'] or data['vmat']
WritesMask(data) == data.mask \/ data.vmat

\* open(name, "w") / Image.save(name): the file is created or replaced
WriteFile(fs, name, content) ==
    {f \in fs : f.name # name} \cup {[name |-> name, content |-> content]}

\* executor.submit: the task joins the queue (sub numbers the submissions)
Submit(q, task, h) == Append(q, [task EXCEPT !.sub = h.submitted + 1])

\* ---------------------------------------------------------------- debounce
\* the history of one trigger_preview_update call
HistTrigger(h) ==
    [h EXCEPT !.changes = @ + 1, !.sinceChange = 0,
              !.launchesSince = 0, !.rendersSince = 0,
              !.bursts = IF h.changes = 0 THEN 1
                         ELSE IF h.sinceChange < DebounceDelay THEN @
                         ELSE IF h.sinceChange > DebounceDelay THEN @ + 1
                         ELSE IF h.launchesSince > 0 THEN @ + 1 ELSE @]

\* trigger_preview_update, ts being the after callbacks pending at the call
TriggerPreviewUpdate(ts) ==
    /\ timers' = (IF debounce_timer # 0 THEN AfterCancel(ts, debounce_timer) ELSE ts)
                 \cup {[id |-> timerSeq, left |-> DebounceDelay, cb |-> "launch"]}
    /\ debounce_timer' = timerSeq
    /\ timerSeq' = timerSeq + 1

UiEventAllowed == hist.uiEvents < budget

\* a handler that changes a render parameter and calls trigger_preview_update
ParamChange(newUi) ==
    /\ UiEventAllowed
    /\ ui' = newUi
    /\ TriggerPreviewUpdate(timers)
    /\ hist' = [HistTrigger(hist) EXCEPT !.uiEvents = @ + 1]
    /\ UNCHANGED <<preview_req_id, preview_image_ref, afterQueue, progress,
                   workQueue, running, files>>
    /\ UNCHANGED <<catalogVars, layoutVars, callVars, budget>>

TextsTyped == {<<>>, t_digit}

\* _on_text_key_release
OnTextKeyRelease ==
    \E t \in TextsTyped : t # ui.text /\ ParamChange([ui EXCEPT !.text = t])

\* toggle_effects (the checkbox has already flipped outline_enabled)
ToggleEffects == ParamChange([ui EXCEPT !.outline_enabled = ~@])

\* the "Generate Transparency Mask" checkbox (no command)
ToggleMask ==
    /\ UiEventAllowed
    /\ ui' = [ui EXCEPT !.mask = ~@]
    /\ hist' = [hist EXCEPT !.uiEvents = @ + 1]
    /\ UNCHANGED <<debounce_timer, timers, timerSeq, preview_req_id, preview_image_ref,
                   afterQueue, progress, workQueue, running, files>>
    /\ UNCHANGED <<catalogVars, layoutVars, callVars, budget>>

\* toggle_vmat_options (the checkbox has already flipped vmat_enabled)
ToggleVmatOptions ==
    /\ UiEventAllowed
    /\ ui' = [ui EXCEPT !.vmat = ~@, !.mask = IF ~ui.vmat THEN TRUE ELSE @]
    /\ hist' = [hist EXCEPT !.uiEvents = @ + 1]
    /\ UNCHANGED <<debounce_timer, timers, timerSeq, preview_req_id, preview_image_ref,
                   afterQueue, progress, workQueue, running, files>>
    /\ UNCHANGED <<catalogVars, layoutVars, callVars, budget>>

\* time passes: by TickMs, but not past the next pending timer
Tick ==
    /\ \A t \in timers : t.left > 0
    /\ LET d == IF timers = {} THEN TickMs
                ELSE Min(TickMs, CHOOSE m \in {t.left : t \in timers} :
                                     \A t \in timers : m <= t.left)
       IN  /\ timers' = {[t EXCEPT !.left = @ - d] : t \in timers}
           /\ hist' = [hist EXCEPT !.sinceChange = Min(@ + d, DebounceDelay + 1)]
    /\ UNCHANGED <<ui, debounce_timer, timerSeq, preview_req_id, preview_image_ref,
                   afterQueue, progress, workQueue, running, files>>
    /\ UNCHANGED <<catalogVars, layoutVars, callVars, budget>>

\* __init__: root.after(200, self.trigger_preview_update) comes due
StartupTrigger ==
    \E t \in timers :
        /\ t.cb = "trigger" /\ t.left = 0
        /\ TriggerPreviewUpdate(timers \ {t})
        /\ hist' = HistTrigger(hist)
        /\ UNCHANGED <<ui, preview_req_id, preview_image_ref, afterQueue, progress,
                       workQueue, running, files>>
        /\ UNCHANGED <<catalogVars, layoutVars, callVars, budget>>

\* update_preview_thread_launcher, run by the debounce timer; raised: the
\* snapshot in its try block raised and the bare except returned
UpdatePreviewThreadLauncher ==
    \E t \in timers, raised \in BOOLEAN :
        /\ t.cb = "launch" /\ t.left = 0
        /\ timers' = timers \ {t}
        /\ preview_req_id' = IncrReqId(preview_req_id)
        /\ LET req == PreviewRequest(ui, font_paths, preview_req_id')
               task == [kind |-> "render", req |-> req, sub |-> 0,
                        snap |-> ui, version |-> hist.changes]
               h == [hist EXCEPT !.launches = @ + 1, !.launchesSince = @ + 1,
                                 !.lastLaunchVersion = hist.changes]
           IN  IF raised
               THEN /\ workQueue' = workQueue
                    /\ hist' = h
               ELSE /\ workQueue' = Submit(workQueue, task, hist)
                    /\ hist' = [h EXCEPT !.rendersSince = @ + 1, !.lastSubmit = <<task>>,
                                         !.submitted = @ + 1]
        /\ UNCHANGED <<ui, debounce_timer, timerSeq, preview_image_ref, afterQueue,
                       progress, running, files>>
        /\ UNCHANGED <<catalogVars, layoutVars, callVars, budget>>


\* ---------------------------------------------------------------- exports
SavePaths ==
    { <<"/","h","/","m","a","t","e","r","i","a","l","s","/","u","i","/","a","_","c","o","l","o","r",".","p","n","g">>,
      <<"C",":","/","o","u","t","/","b",".","p","n","g">> }

\* generate_image with a path chosen in the dialog
GenerateImage ==
    \E save_path \in SavePaths :
        /\ UiEventAllowed
        /\ progress' = "busy"
        /\ workQueue' = Submit(workQueue,
                               [kind |-> "threaded_save", save_path |-> save_path, sub |-> 0],
                               hist)
        /\ hist' = [hist EXCEPT !.uiEvents = @ + 1, !.exportsStarted = @ + 1,
                                !.submitted = @ + 1]
        /\ UNCHANGED <<ui, debounce_timer, timers, timerSeq, preview_req_id,
                       preview_image_ref, afterQueue, running, files>>
        /\ UNCHANGED <<catalogVars, layoutVars, callVars, budget>>

\* ---------------------------------------------------------------- worker
\* a worker thread of the pool takes the oldest queued task
WorkerStart(w) ==
    /\ running[w] = <<>>
    /\ workQueue # <<>>
    /\ running' = [running EXCEPT ![w] = <<Head(workQueue)>>]
    /\ workQueue' = Tail(workQueue)
    /\ UNCHANGED <<ui, debounce_timer, timers, timerSeq, preview_req_id,
                   preview_image_ref, afterQueue, progress, files, hist>>
    /\ UNCHANGED <<catalogVars, layoutVars, callVars, budget>>

Task(w) == running[w][1]
Busy(w) == running[w] # <<>>

\* a failure variant: the except branch hands the frame over all the same
RaisedCallbacks_posted(cb) == <<cb>>

\* _threaded_render, except Exception as e: Log.error(...) is all that happens,
\* so a render that raised hands no callback to the controlling thread
RaisedCallbacks(cb) == <<>>

\* _threaded_render; raised: the render raised and was only logged
ThreadedRender(w) ==
    /\ Busy(w) /\ Task(w).kind = "render"
    /\ \E raised \in BOOLEAN :
        LET r == Task(w).req
            text_layer == CreateTextImagePil(r.text, r.size, r.font_obj, r.alignment,
                                             r.position, r.padding, r.line_spacing,
                                             LiveFields(ui))
            display_size == DisplaySize(r.size, r.panel_w, r.panel_h)
            cb == [kind |-> "apply", pil_image |-> text_layer,
                   display_size |-> display_size, req_id |-> r.req_id,
                   snap |-> Task(w).snap, version |-> Task(w).version]
        IN  IF raised
            THEN /\ afterQueue' = afterQueue \o RaisedCallbacks(cb)
                 /\ hist' = [hist EXCEPT !.finished = @ + 1,
                                         !.raisedReqs = @ \cup {r.req_id}]
            ELSE /\ afterQueue' = Append(afterQueue, cb)
                 /\ hist' = [hist EXCEPT !.finished = @ + 1,
                                         !.lastRender = <<[snap |-> Task(w).snap,
                                                           req |-> r,
                                                           image |-> text_layer]>>]
    /\ running' = [running EXCEPT ![w] = <<>>]
    /\ UNCHANGED <<ui, debounce_timer, timers, timerSeq, preview_req_id,
                   preview_image_ref, progress, workQueue, files>>
    /\ UNCHANGED <<catalogVars, layoutVars, callVars, budget>>

\* _threaded_save: hands _gather_and_save to the controlling thread
ThreadedSave(w) ==
    /\ Busy(w) /\ Task(w).kind = "threaded_save"
    /\ afterQueue' = Append(afterQueue, [kind |-> "gather", save_path |-> Task(w).save_path])
    /\ running' = [running EXCEPT ![w] = <<>>]
    /\ hist' = [hist EXCEPT !.finished = @ + 1]
    /\ UNCHANGED <<ui, debounce_timer, timers, timerSeq, preview_req_id,
                   preview_image_ref, progress, workQueue, files>>
    /\ UNCHANGED <<catalogVars, layoutVars, callVars, budget>>

\* the record of a finished export; err is <<>> or <<e>>, the exception raised
ExportRecord(task, ok, err) ==
    [save_path |-> task.save_path, base_path |-> BasePath(task.save_path),
     data |-> task.data, snap |-> task.snap, written |-> task.written,
     colorDraw |-> task.colorDraw, maskDraw |-> task.maskDraw, ok |-> ok,
     err |-> err]

\* the OSError a failed write of the file raises
WriteError(name) == [errno |-> "EACCES", filename |-> name]

\* str(e)
StrOfError(e) == <<"Permission denied", e.filename>>

\* the except branches: lambda: self._stop_loading_error(str(e))
ErrorCallback(e) == [kind |-> "error", msg |-> StrOfError(e)]

\* _perform_save leaves through its except branch with the exception e
SaveFails(w, task, e) ==
    /\ afterQueue' = Append(afterQueue, ErrorCallback(e))
    /\ running' = [running EXCEPT ![w] = <<>>]
    /\ hist' = [hist EXCEPT !.finished = @ + 1,
                            !.exports = Append(@, ExportRecord(task, FALSE, <<e>>))]

\* _perform_save: the colour pass and img.save(color_filename)
PerformSaveColor(w) ==
    /\ Busy(w) /\ Task(w).kind = "perform_save" /\ Task(w).pc = "color"
    /\ LET d == Task(w).data
           base_path == BasePath(Task(w).save_path)
           img == CreateTextImagePil(d.text, d.size, d.font_obj, d.alignment,
                                     d.position, d.padding, d.line_spacing,
                                     LiveFields(ui))
           color_filename == base_path \o s_color_png
           drawn == [Task(w) EXCEPT !.colorDraw = <<img>>]
       IN  \E ok \in BOOLEAN :
             IF ok
             THEN /\ files' = WriteFile(files, color_filename, img)
                  /\ running' = [running EXCEPT ![w] =
                        <<[drawn EXCEPT !.pc = "mask",
                                        !.written = @ \cup {[name |-> color_filename,
                                                             content |-> img]}]>>]
                  /\ UNCHANGED <<afterQueue, hist>>
             ELSE /\ SaveFails(w, drawn, WriteError(color_filename))
                  /\ UNCHANGED files
    /\ UNCHANGED <<ui, debounce_timer, timers, timerSeq, preview_req_id,
                   preview_image_ref, progress, workQueue>>
    /\ UNCHANGED <<catalogVars, layoutVars, callVars, budget>>

\* _perform_save: the mask pass and mask.save(trans_filename)
PerformSaveMask(w) ==
    /\ Busy(w) /\ Task(w).kind = "perform_save" /\ Task(w).pc = "mask"
    /\ LET d == Task(w).data
           base_path == BasePath(Task(w).save_path)
           mask == CreateMaskImage(d.text, d.size, d.font_obj, d.alignment,
                                   d.position, d.padding, d.line_spacing,
                                   LiveFields(ui))
           trans_filename == base_path \o s_trans_png
           drawn == [Task(w) EXCEPT !.maskDraw = <<mask>>]
       IN  IF WritesMask(d)
           THEN \E ok \in BOOLEAN :
                  IF ok
                  THEN /\ files' = WriteFile(files, trans_filename, mask)
                       /\ running' = [running EXCEPT ![w] =
                             <<[drawn EXCEPT !.pc = "vmat",
                                             !.written = @ \cup {[name |-> trans_filename,
                                                                  content |-> mask]}]>>]
                       /\ UNCHANGED <<afterQueue, hist>>
                  ELSE /\ SaveFails(w, drawn, WriteError(trans_filename))
                       /\ UNCHANGED files
           ELSE /\ running' = [running EXCEPT ![w] = <<[drawn EXCEPT !.pc = "vmat"]>>]
                /\ UNCHANGED <<afterQueue, hist, files>>
    /\ UNCHANGED <<ui, debounce_timer, timers, timerSeq, preview_req_id,
                   preview_image_ref, progress, workQueue>>
    /\ UNCHANGED <<catalogVars, layoutVars, callVars, budget>>

\* _perform_save leaves through its last lines: _show_success is handed over
SaveSucceeds(w, task) ==
    /\ afterQueue' = Append(afterQueue,
                            [kind |-> "success", path_to_open |-> Dirname(BasePath(task.save_path))])
    /\ running' = [running EXCEPT ![w] = <<>>]
    /\ hist' = [hist EXCEPT !.finished = @ + 1,
                            !.exports = Append(@, ExportRecord(task, TRUE, <<>>))]

\* _perform_save: the material file, then the success callback
PerformSaveVmat(w) ==
    /\ Busy(w) /\ Task(w).kind = "perform_save" /\ Task(w).pc = "vmat"
    /\ LET d == Task(w).data
           base_path == BasePath(Task(w).save_path)
           color_abs == Abspath(base_path \o s_color_png)
           trans_abs == Abspath(base_path \o s_trans_png)
           vmat_content == GenerateVmatContent(d.shader,
                                               GetRelativeTexturePath(color_abs),
                                               GetRelativeTexturePath(trans_abs))
           vmat_filename == base_path \o s_vmat
       IN  IF d.vmat
           THEN \E ok \in BOOLEAN :
                  IF ok
                  THEN /\ files' = WriteFile(files, vmat_filename, vmat_content)
                       /\ SaveSucceeds(w, [Task(w) EXCEPT !.written =
                                             @ \cup {[name |-> vmat_filename,
                                                      content |-> vmat_content]}])
                  ELSE /\ SaveFails(w, Task(w), WriteError(vmat_filename))
                       /\ UNCHANGED files
           ELSE /\ SaveSucceeds(w, Task(w))
                /\ UNCHANGED files
    /\ UNCHANGED <<ui, debounce_timer, timers, timerSeq, preview_req_id,
                   preview_image_ref, progress, workQueue>>
    /\ UNCHANGED <<catalogVars, layoutVars, callVars, budget>>

\* ---------------------------------------------------------------- callbacks
\* _apply_preview, run by the controlling thread for the oldest callback
ApplyPreview ==
    /\ afterQueue # <<>> /\ Head(afterQueue).kind = "apply"
    /\ LET cb == Head(afterQueue)
           use == ApplyGuard(cb.req_id, preview_req_id)
           frame == [pil_image |-> cb.pil_image, display_size |-> cb.display_size,
                     req_id |-> cb.req_id]
       IN  /\ preview_image_ref' = IF use THEN <<frame>> ELSE preview_image_ref
           /\ hist' = [hist EXCEPT
                         !.installs = IF use THEN Min(@ + 1, 2) ELSE @,
                         !.dropped = IF use THEN @ ELSE TRUE,
                         !.lastApply = <<[tag |-> cb.req_id, cur |-> preview_req_id,
                                          used |-> use,
                                          version |-> cb.version,
                                          curVersion |-> hist.changes,
                                          launchVersion |-> hist.lastLaunchVersion]>>]
    /\ afterQueue' = Tail(afterQueue)
    /\ UNCHANGED <<ui, debounce_timer, timers, timerSeq, preview_req_id, progress,
                   workQueue, running, files>>
    /\ UNCHANGED <<catalogVars, layoutVars, callVars, budget>>

\* _gather_and_save, run by the controlling thread; raised: a read of the
\* widgets or get_font_object raised, outside any try, and Tk reported it
GatherAndSave ==
    /\ afterQueue # <<>> /\ Head(afterQueue).kind = "gather"
    /\ \E raised \in BOOLEAN :
        LET cb == Head(afterQueue)
            task == [kind |-> "perform_save", save_path |-> cb.save_path,
                     data |-> ExportData(ui, font_paths), pc |-> "color",
                     written |-> {}, colorDraw |-> <<>>, maskDraw |-> <<>>,
                     snap |-> ui, sub |-> 0]
        IN  IF raised
            THEN UNCHANGED <<workQueue, hist>>
            ELSE /\ workQueue' = Submit(workQueue, task, hist)
                 /\ hist' = [hist EXCEPT !.submitted = @ + 1]
    /\ afterQueue' = Tail(afterQueue)
    /\ UNCHANGED <<ui, debounce_timer, timers, timerSeq, preview_req_id,
                   preview_image_ref, progress, running, files>>
    /\ UNCHANGED <<catalogVars, layoutVars, callVars, budget>>

\* _show_success
ShowSuccess ==
    /\ afterQueue # <<>> /\ Head(afterQueue).kind = "success"
    /\ progress' = "ok"
    /\ afterQueue' = Tail(afterQueue)
    /\ UNCHANGED <<ui, debounce_timer, timers, timerSeq, preview_req_id,
                   preview_image_ref, workQueue, running, files, hist>>
    /\ UNCHANGED <<catalogVars, layoutVars, callVars, budget>>

\* the callback lambda: self._stop_loading_error(str(e)) runs on the controlling
\* thread. e is the name bound by "except Exception as e" on the worker, and
\* Python unbinds it when the except block is left: the lambda finds it bound
\* only if it runs before the worker has got that far. Otherwise str(e) raises
\* NameError, Tk reports it, and _stop_loading_error is not called.
StopLoadingError ==
    /\ afterQueue # <<>> /\ Head(afterQueue).kind = "error"
    /\ \E bound \in BOOLEAN : progress' = IF bound THEN "error" ELSE progress
    /\ afterQueue' = Tail(afterQueue)
    /\ UNCHANGED <<ui, debounce_timer, timers, timerSeq, preview_req_id,
                   preview_image_ref, workQueue, running, files, hist>>
    /\ UNCHANGED <<catalogVars, layoutVars, callVars, budget>>

\* ---------------------------------------------------------------- batch export
\* _perform_batch: for i in range(10)
BatchCount == 10
Digits == <<"0","1","2","3","4","5","6","7","8","9">>

\* the directory chosen in the dialog of generate_numbers
BatchDirs == { <<"/","h","/","m","a","t","e","r","i","a","l","s","/","n">> }

\* _batch_numbers_logic: data
BatchData(u, paths) ==
    [size |-> u.size, font_size |-> u.size,
     font_obj |-> GetFontObject(u.font_family, u.size, paths),
     alignment |-> u.alignment, position |-> u.position,
     padding |-> u.padding, line_spacing |-> u.line_spacing,
     mask |-> u.mask, vmat |-> u.vmat, shader |-> u.shader]

\* generate_numbers with a directory chosen in the dialog
GenerateNumbers ==
    \E directory \in BatchDirs :
        /\ UiEventAllowed
        /\ progress' = "busy"
        /\ workQueue' = Submit(workQueue,
                               [kind |-> "threaded_batch", directory |-> directory, sub |-> 0],
                               hist)
        /\ hist' = [hist EXCEPT !.uiEvents = @ + 1, !.submitted = @ + 1]
        /\ UNCHANGED <<ui, debounce_timer, timers, timerSeq, preview_req_id,
                       preview_image_ref, afterQueue, running, files>>
        /\ UNCHANGED <<catalogVars, layoutVars, callVars, budget>>

\* _threaded_batch_numbers: hands _batch_numbers_logic to the controlling thread
ThreadedBatchNumbers(w) ==
    /\ Busy(w) /\ Task(w).kind = "threaded_batch"
    /\ afterQueue' = Append(afterQueue, [kind |-> "batch_logic", directory |-> Task(w).directory])
    /\ running' = [running EXCEPT ![w] = <<>>]
    /\ hist' = [hist EXCEPT !.finished = @ + 1]
    /\ UNCHANGED <<ui, debounce_timer, timers, timerSeq, preview_req_id,
                   preview_image_ref, progress, workQueue, files>>
    /\ UNCHANGED <<catalogVars, layoutVars, callVars, budget>>

\* _batch_numbers_logic, run by the controlling thread; raised: a read of the
\* widgets or get_font_object raised, outside any try, and Tk reported it
BatchNumbersLogic ==
    /\ afterQueue # <<>> /\ Head(afterQueue).kind = "batch_logic"
    /\ \E raised \in BOOLEAN :
        LET cb == Head(afterQueue)
            task == [kind |-> "perform_batch", directory |-> cb.directory,
                     data |-> BatchData(ui, font_paths), i |-> 0, sub |-> 0]
        IN  IF raised
            THEN UNCHANGED <<workQueue, hist>>
            ELSE /\ workQueue' = Submit(workQueue, task, hist)
                 /\ hist' = [hist EXCEPT !.submitted = @ + 1]
    /\ afterQueue' = Tail(afterQueue)
    /\ UNCHANGED <<ui, debounce_timer, timers, timerSeq, preview_req_id,
                   preview_image_ref, progress, running, files>>
    /\ UNCHANGED <<catalogVars, layoutVars, callVars, budget>>

\* the record of a finished batch: failedAt is <<>> or <<i>>, the digit whose
\* export raised
BatchRecord(task, failedAt) ==
    [directory |-> task.directory, data |-> task.data, failedAt |-> failedAt]

\* _perform_batch: base = os.path.join(directory, f"{i}")
BatchBase(directory, i) == directory \o <<"/">> \o <<Digits[i + 1]>>

\* _perform_batch: one turn of the loop. failAt names the write that raises,
\* if one does; the files written before it stay, and _stop_loading_error is
\* handed over. After the last turn _show_success is handed over.
PerformBatch(w) ==
    /\ Busy(w) /\ Task(w).kind = "perform_batch"
    /\ LET d == Task(w).data
           i == Task(w).i
           text == <<Digits[i + 1]>>
           base == BatchBase(Task(w).directory, i)
           img == CreateTextImagePil(text, d.size, d.font_obj, d.alignment,
                                     d.position, d.padding, d.line_spacing,
                                     LiveFields(ui))
           mask == CreateMaskImage(text, d.size, d.font_obj, d.alignment,
                                   d.position, d.padding, d.line_spacing,
                                   LiveFields(ui))
           c_path == GetRelativeTexturePath(Abspath(base \o s_color_png))
           t_path == GetRelativeTexturePath(Abspath(base \o s_trans_png))
           content == GenerateVmatContent(d.shader, c_path, t_path)
           f1 == WriteFile(files, base \o s_color_png, img)
           f2 == IF WritesMask(d) THEN WriteFile(f1, base \o s_trans_png, mask) ELSE f1
           f3 == IF d.vmat THEN WriteFile(f2, base \o s_vmat, content) ELSE f2
       IN  \E failAt \in {"none", "color", "mask", "vmat"} :
             /\ (failAt = "mask" => WritesMask(d))
             /\ (failAt = "vmat" => d.vmat)
             /\ files' = CASE failAt = "color" -> files
                           [] failAt = "mask"  -> f1
                           [] failAt = "vmat"  -> f2
                           [] OTHER            -> f3
             /\ IF failAt # "none"
                THEN /\ afterQueue' = Append(afterQueue, ErrorCallback(WriteError(
                                 CASE failAt = "color" -> base \o s_color_png
                                   [] failAt = "mask"  -> base \o s_trans_png
                                   [] OTHER            -> base \o s_vmat)))
                     /\ running' = [running EXCEPT ![w] = <<>>]
                     /\ hist' = [hist EXCEPT !.finished = @ + 1,
                                             !.batches = Append(@, BatchRecord(Task(w), <<i>>))]
                ELSE IF i + 1 = BatchCount
                THEN /\ afterQueue' = Append(afterQueue,
                                             [kind |-> "success", path_to_open |-> Task(w).directory])
                     /\ running' = [running EXCEPT ![w] = <<>>]
                     /\ hist' = [hist EXCEPT !.finished = @ + 1,
                                             !.batches = Append(@, BatchRecord(Task(w), <<>>))]
                ELSE /\ running' = [running EXCEPT ![w] = <<[Task(w) EXCEPT !.i = i + 1]>>]
                     /\ UNCHANGED <<afterQueue, hist>>
    /\ UNCHANGED <<ui, debounce_timer, timers, timerSeq, preview_req_id,
                   preview_image_ref, progress, workQueue>>
    /\ UNCHANGED <<catalogVars, layoutVars, callVars, budget>>

\* ---------------------------------------------------------------- font catalog
sfx_Regular_h == <<"-","R","e","g","u","l","a","r">>
sfx_Bold_h    == <<"-","B","o","l","d">>
sfx_Regular   == <<"R","e","g","u","l","a","r">>
sfx_Bold      == <<"B","o","l","d">>
sfx_Italic    == <<"I","t","a","l","i","c">>
sfx_Italic_h  == <<"-","I","t","a","l","i","c">>
\* _scan_fonts_thread: the suffix list, in its order
Suffixes == <<sfx_Regular_h, sfx_Bold_h, sfx_Regular, sfx_Bold, sfx_Italic, sfx_Italic_h>>

ext_ttf == <<".","t","t","f">>
ext_otf == <<".","o","t","f">>

\* the characters of the modelled names, in code point order
Ascii == <<" ","-",".","/","0","1","2","3","4","5","6","7","8","9",":",
           "A","B","C","D","E","F","G","H","I","J","K","L","M","N","O","P","Q","R",
           "S","T","U","V","W","X","Y","Z","_",
           "a","b","c","d","e","f","g","h","i","j","k","l","m","n","o","p","q","r",
           "s","t","u","v","w","x","y","z","~">>
Code(c) == CHOOSE i \in 1..Len(Ascii) : Ascii[i] = c

\* Python's < on strings
RECURSIVE StrLess(_, _)
StrLess(a, b) ==
    IF Len(b) = 0 THEN FALSE
    ELSE IF Len(a) = 0 THEN TRUE
    ELSE IF a[1] = b[1] THEN StrLess(Tail(a), Tail(b))
    ELSE Code(a[1]) < Code(b[1])

\* sorted(list(set(names)))
RECURSIVE SortedSet(_)
SortedSet(S) ==
    IF S = {} THEN <<>>
    ELSE LET m == CHOOSE x \in S : \A y \in S \ {x} : StrLess(x, y)
         IN  <<m>> \o SortedSet(S \ {m})

Range(q) == {q[i] : i \in 1..Len(q)}

\* os.path.splitext(file)[0]: up to the last dot, unless the name only starts with dots
SplitextRoot(file) ==
    LET dots == {i \in 1..Len(file) : file[i] = "."}
        last == CHOOSE i \in dots : \A k \in dots : k <= i
    IN  IF dots = {} \/ \A k \in 1..(last - 1) : file[k] = "."
        THEN file
        ELSE SubSeq(file, 1, last - 1)

\* _scan_fonts_thread: the first suffix of the list the name ends with is cut off
CleanName(font_name) ==
    LET hits == {i \in 1..Len(Suffixes) : EndsWith(font_name, Suffixes[i])}
        first == CHOOSE i \in hits : \A k \in hits : i <= k
    IN  IF hits = {} THEN font_name
        ELSE SubSeq(font_name, 1, Len(font_name) - Len(Suffixes[first]))

\* file.lower().endswith(('.ttf', '.otf'))
IsFontFile(file) == EndsWith(Lower(file), ext_ttf) \/ EndsWith(Lower(file), ext_otf)

\* the font directories as os.walk yields them: [root, file] in traversal order
dir_sys  == <<"/","u","s","r","/","s","h","a","r","e","/","f","o","n","t","s">>
dir_user == <<"/","h","o","m","e","/","u","/",".","f","o","n","t","s">>
FontFiles ==
    << [root |-> dir_sys,  file |-> <<"A","r","i","a","l","-","B","o","l","d",".","t","t","f">>],
       [root |-> dir_sys,  file |-> <<"B","o","l","d",".","t","t","f">>],
       [root |-> dir_sys,  file |-> <<"n","o","t","e","s",".","t","x","t">>],
       [root |-> dir_user, file |-> <<"N","o","t","o",".","t","t","f">>],
       [root |-> dir_user, file |-> <<"Z","e","d","-","I","t","a","l","i","c",".","O","T","F">>] >>

\* os.path.join(root, file)
PathJoin(root, file) == root \o <<"/">> \o file

\* the empty dict
EmptyDict == [n \in {} |-> <<>>]

\* a failure variant: a later file replaces the path of an earlier one
RECURSIVE Walk_lastWins(_, _)
Walk_lastWins(fs, k) ==
    IF k = 0 THEN [verified_fonts |-> <<>>, temp_paths |-> EmptyDict]
    ELSE LET acc == Walk_lastWins(fs, k - 1)
             f == fs[k]
             font_name == CleanName(SplitextRoot(f.file))
         IN  IF IsFontFile(f.file) /\ font_name # <<>>
             THEN [verified_fonts |-> Append(acc.verified_fonts, font_name),
                   temp_paths |-> [n \in DOMAIN acc.temp_paths \cup {font_name} |->
                                     IF n = font_name THEN PathJoin(f.root, f.file)
                                     ELSE acc.temp_paths[n]]]
             ELSE acc

\* _scan_fonts_thread: the walk over the first k files; the result is
\* [verified_fonts, temp_paths]
RECURSIVE Walk(_, _)
Walk(fs, k) ==
    IF k = 0 THEN [verified_fonts |-> <<>>, temp_paths |-> EmptyDict]
    ELSE LET acc == Walk(fs, k - 1)
             f == fs[k]
             font_name == CleanName(SplitextRoot(f.file))
         IN  IF IsFontFile(f.file) /\ font_name # <<>>
                /\ font_name \notin DOMAIN acc.temp_paths
             THEN [verified_fonts |-> Append(acc.verified_fonts, font_name),
                   temp_paths |-> [n \in DOMAIN acc.temp_paths \cup {font_name} |->
                                     IF n = font_name THEN PathJoin(f.root, f.file)
                                     ELSE acc.temp_paths[n]]]
             ELSE acc

\* the cache files a start may find: none, one json.load rejects, and the
\* one an earlier run saved
n_Old == <<"O","l","d">>
p_Old == <<"/","o","l","d","/","O","l","d",".","t","t","f">>
\* what json.load gives for the file: valid (it parsed to an object), the keys
\* it has, their values, and which scan thread wrote it (0: an earlier program)
OldCache ==
    [valid |-> TRUE, has |-> {"names", "paths"}, names |-> <<n_Old>>,
     paths |-> [n \in {n_Old} |-> p_Old], by |-> 0]
\* a file json.load rejects
CorruptCache ==
    [valid |-> FALSE, has |-> {}, names |-> <<>>, paths |-> EmptyDict, by |-> 0]
\* an object without "names"
NoNamesCache ==
    [valid |-> TRUE, has |-> {"paths"}, names |-> <<>>,
     paths |-> [n \in {n_Old} |-> p_Old], by |-> 0]
\* an object without "paths"
NoPathsCache ==
    [valid |-> TRUE, has |-> {"names"}, names |-> <<n_Old>>, paths |-> EmptyDict, by |-> 0]
\* an object whose "paths" is null
MalformedCache ==
    [valid |-> TRUE, has |-> {"names", "paths"}, names |-> <<n_Old>>,
     paths |-> NoneDict, by |-> 0]
InitialCaches ==
    {<<>>, <<OldCache>>, <<CorruptCache>>, <<NoNamesCache>>, <<NoPathsCache>>,
     <<MalformedCache>>}

\* start_font_scan: a new thread at the top of _scan_fonts_thread
NewScanThread(id) ==
    [id |-> id, pc |-> "exists", data |-> <<>>,
     verified_fonts |-> <<>>, temp_paths |-> EmptyDict, loaded |-> FALSE]

CatalogRest ==
    /\ available_fonts = <<>>
    /\ font_paths = EmptyDict
    /\ scanThreads = <<NewScanThread(1)>>
    /\ rescanPc = "idle"
    /\ rescans = 0
    /\ stamps = [names |-> 0, paths |-> 0, run |-> 0, rescans0 |-> 0,
                 startCache |-> cacheFile]
    /\ observed = <<>>

\* the catalog while nothing of it runs
CatalogInit == cacheFile = <<>> /\ CatalogRest

ScanStep(i, pc) == i \in 1..Len(scanThreads) /\ scanThreads[i].pc = pc
SetThread(i, t) == scanThreads' = [scanThreads EXCEPT ![i] = t]

\* _scan_fonts_thread: if os.path.exists(cache_file)
ScanExists(i) ==
    /\ ScanStep(i, "exists")
    /\ SetThread(i, [scanThreads[i] EXCEPT !.pc = IF cacheFile # <<>> THEN "load" ELSE "walk"])
    /\ UNCHANGED <<available_fonts, font_paths, cacheFile, rescanPc, rescans, stamps, observed>>
    /\ UNCHANGED <<previewVars, layoutVars, callVars, hist, budget>>

\* _scan_fonts_thread: open and json.load; a missing or rejected file raises
ScanLoad(i) ==
    /\ ScanStep(i, "load")
    /\ IF cacheFile # <<>> /\ cacheFile[1].valid
       THEN SetThread(i, [scanThreads[i] EXCEPT !.pc = "cache_names", !.data = cacheFile])
       ELSE SetThread(i, [scanThreads[i] EXCEPT !.pc = "walk"])
    /\ UNCHANGED <<available_fonts, font_paths, cacheFile, rescanPc, rescans, stamps, observed>>
    /\ UNCHANGED <<previewVars, layoutVars, callVars, hist, budget>>

\* _scan_fonts_thread: self.available_fonts = data["names"]; a missing key
\* raises and the except branch goes on to the scan
ScanCacheNames(i) ==
    /\ ScanStep(i, "cache_names")
    /\ IF "names" \in scanThreads[i].data[1].has
       THEN /\ available_fonts' = scanThreads[i].data[1].names
            /\ stamps' = [stamps EXCEPT !.names = scanThreads[i].id]
            /\ SetThread(i, [scanThreads[i] EXCEPT !.pc = "cache_paths"])
       ELSE /\ SetThread(i, [scanThreads[i] EXCEPT !.pc = "walk"])
            /\ UNCHANGED <<available_fonts, stamps>>
    /\ UNCHANGED <<font_paths, cacheFile, rescanPc, rescans, observed>>
    /\ UNCHANGED <<previewVars, layoutVars, callVars, hist, budget>>

\* _scan_fonts_thread: self.font_paths = data["paths"], then return; a missing
\* key raises and the except branch goes on to the scan
ScanCachePaths(i) ==
    /\ ScanStep(i, "cache_paths")
    /\ IF "paths" \in scanThreads[i].data[1].has
       THEN /\ font_paths' = scanThreads[i].data[1].paths
            /\ stamps' = [stamps EXCEPT !.paths = scanThreads[i].id]
            /\ SetThread(i, [scanThreads[i] EXCEPT !.pc = "done", !.loaded = TRUE])
       ELSE /\ SetThread(i, [scanThreads[i] EXCEPT !.pc = "walk"])
            /\ UNCHANGED <<font_paths, stamps>>
    /\ UNCHANGED <<available_fonts, cacheFile, rescanPc, rescans, observed>>
    /\ UNCHANGED <<previewVars, layoutVars, callVars, hist, budget>>

\* _scan_fonts_thread: the walk over the font directories
ScanWalk(i) ==
    /\ ScanStep(i, "walk")
    /\ LET r == Walk(FontFiles, Len(FontFiles))
       IN  SetThread(i, [scanThreads[i] EXCEPT !.pc = "set_names",
                                               !.verified_fonts = r.verified_fonts,
                                               !.temp_paths = r.temp_paths])
    /\ UNCHANGED <<available_fonts, font_paths, cacheFile, rescanPc, rescans, stamps, observed>>
    /\ UNCHANGED <<previewVars, layoutVars, callVars, hist, budget>>

\* _scan_fonts_thread: self.available_fonts = sorted(list(set(verified_fonts)))
ScanSetNames(i) ==
    /\ ScanStep(i, "set_names")
    /\ available_fonts' = SortedSet(Range(scanThreads[i].verified_fonts))
    /\ stamps' = [stamps EXCEPT !.names = scanThreads[i].id]
    /\ SetThread(i, [scanThreads[i] EXCEPT !.pc = "set_paths"])
    /\ UNCHANGED <<font_paths, cacheFile, rescanPc, rescans, observed>>
    /\ UNCHANGED <<previewVars, layoutVars, callVars, hist, budget>>

\* _scan_fonts_thread: self.font_paths = temp_paths
ScanSetPaths(i) ==
    /\ ScanStep(i, "set_paths")
    /\ font_paths' = scanThreads[i].temp_paths
    /\ stamps' = [stamps EXCEPT !.paths = scanThreads[i].id]
    /\ SetThread(i, [scanThreads[i] EXCEPT !.pc = "save"])
    /\ UNCHANGED <<available_fonts, cacheFile, rescanPc, rescans, observed>>
    /\ UNCHANGED <<previewVars, layoutVars, callVars, hist, budget>>

\* _scan_fonts_thread: "SAVE TO CACHE"; a failed write is only logged
ScanSave(i) ==
    /\ ScanStep(i, "save")
    /\ \E ok \in BOOLEAN :
         cacheFile' = IF ok
                      THEN <<[valid |-> TRUE, has |-> {"names", "paths"},
                              names |-> available_fonts, paths |-> font_paths,
                              by |-> scanThreads[i].id]>>
                      ELSE cacheFile
    /\ SetThread(i, [scanThreads[i] EXCEPT !.pc = "done"])
    /\ UNCHANGED <<available_fonts, font_paths, rescanPc, rescans, stamps, observed>>
    /\ UNCHANGED <<previewVars, layoutVars, callVars, hist, budget>>

\* the id of the publication the n-th rescan's clearing makes (scan threads
\* publish under their positive ids)
ClearStamp(n) == 0 - n

\* rescan_fonts_action: self.available_fonts = []
RescanClearNames ==
    /\ rescanPc = "idle"
    /\ rescans < MaxRescans
    /\ available_fonts' = <<>>
    /\ rescans' = rescans + 1
    /\ stamps' = [stamps EXCEPT !.names = ClearStamp(rescans + 1)]
    /\ rescanPc' = "clear_paths"
    /\ UNCHANGED <<font_paths, cacheFile, scanThreads, observed>>
    /\ UNCHANGED <<previewVars, layoutVars, callVars, hist, budget>>

\* rescan_fonts_action: self.font_paths = {}
RescanClearPaths ==
    /\ rescanPc = "clear_paths"
    /\ font_paths' = EmptyDict
    /\ stamps' = [stamps EXCEPT !.paths = ClearStamp(rescans)]
    /\ rescanPc' = "remove"
    /\ UNCHANGED <<available_fonts, cacheFile, scanThreads, rescans, observed>>
    /\ UNCHANGED <<previewVars, layoutVars, callVars, hist, budget>>

\* rescan_fonts_action: os.remove(cache_file) if it exists; a failure is logged
RescanRemove ==
    /\ rescanPc = "remove"
    /\ \E ok \in BOOLEAN : cacheFile' = IF ok THEN <<>> ELSE cacheFile
    /\ rescanPc' = "start"
    /\ UNCHANGED <<available_fonts, font_paths, scanThreads, rescans, stamps, observed>>
    /\ UNCHANGED <<previewVars, layoutVars, callVars, hist, budget>>

\* rescan_fonts_action: self.start_font_scan()
RescanStart ==
    /\ rescanPc = "start"
    /\ scanThreads' = Append(scanThreads, NewScanThread(Len(scanThreads) + 1))
    /\ rescanPc' = "idle"
    /\ UNCHANGED <<available_fonts, font_paths, cacheFile, rescans, stamps, observed>>
    /\ UNCHANGED <<previewVars, layoutVars, callVars, hist, budget>>

\* how often the program is started again
MaxRestarts == 1

\* the program has ended and is started again: __init__ empties the catalog
\* and start_font_scan starts the scan thread; the cache file is what it was
Restart ==
    /\ stamps.run < MaxRestarts
    /\ rescanPc = "idle"
    /\ \A i \in 1..Len(scanThreads) : scanThreads[i].pc = "done"
    /\ available_fonts' = <<>>
    /\ font_paths' = EmptyDict
    /\ scanThreads' = <<NewScanThread(1)>>
    /\ stamps' = [names |-> 0, paths |-> 0, run |-> stamps.run + 1,
                  rescans0 |-> rescans, startCache |-> cacheFile]
    /\ observed' = <<>>
    /\ UNCHANGED <<cacheFile, rescanPc, rescans>>
    /\ UNCHANGED <<previewVars, layoutVars, callVars, hist, budget>>

\* a handler of the controlling thread reads the catalog: populate_fonts lists
\* self.available_fonts, create_font_item and get_font_object look names up in
\* self.font_paths
ReadCatalog ==
    /\ rescanPc = "idle"
    /\ observed' = <<[names |-> available_fonts, paths |-> font_paths,
                      namesOf |-> stamps.names, pathsOf |-> stamps.paths]>>
    /\ UNCHANGED <<available_fonts, font_paths, cacheFile, scanThreads, rescanPc,
                   rescans, stamps>>
    /\ UNCHANGED <<previewVars, layoutVars, callVars, hist, budget>>

LayoutInit ==
    /\ layoutIn = <<>>
    /\ layoutOut = <<>>

CallInit ==
    /\ callIn = <<>>
    /\ callOut = <<>>

\* time passes until every pending timer is due
Elapse ==
    /\ \E t \in timers : t.left > 0
    /\ LET d == CHOOSE m \in {t.left : t \in timers} : \A t \in timers : m >= t.left
       IN  /\ timers' = {[t EXCEPT !.left = 0] : t \in timers}
           /\ hist' = [hist EXCEPT !.sinceChange = Min(@ + d, DebounceDelay + 1)]
    /\ UNCHANGED <<ui, debounce_timer, timerSeq, preview_req_id, preview_image_ref,
                   afterQueue, progress, workQueue, running, files>>
    /\ UNCHANGED <<catalogVars, layoutVars, callVars, budget>>

\* ---------------------------------------------------------------- the preview scheduler
Init == PreviewInit /\ CatalogInit /\ LayoutInit /\ CallInit /\ budget = MaxChanges

Next ==
    \/ OnTextKeyRelease
    \/ ToggleEffects
    \/ Tick
    \/ StartupTrigger
    \/ UpdatePreviewThreadLauncher
    \/ \E w \in WorkerIds : WorkerStart(w)
    \/ \E w \in WorkerIds : ThreadedRender(w)
    \/ ApplyPreview

Spec == Init /\ [][Next]_vars

\* ---------------------------------------------------------------- the export pipeline
\* Exports and the UI events around them, while no timer comes due.
InitExport == PreviewInit /\ CatalogInit /\ LayoutInit /\ CallInit /\ budget = MaxExportEvents

NextExport ==
    \/ OnTextKeyRelease
    \/ ToggleEffects
    \/ ToggleMask
    \/ ToggleVmatOptions
    \/ GenerateImage
    \/ \E w \in WorkerIds : WorkerStart(w)
    \/ \E w \in WorkerIds : ThreadedSave(w)
    \/ \E w \in WorkerIds : PerformSaveColor(w)
    \/ \E w \in WorkerIds : PerformSaveMask(w)
    \/ \E w \in WorkerIds : PerformSaveVmat(w)
    \/ GatherAndSave
    \/ ShowSuccess
    \/ StopLoadingError

SpecExport == InitExport /\ [][NextExport]_vars

\* ---------------------------------------------------------------- the whole system
\* Previews and exports together, time passing from one due timer to the next.
InitSystem == PreviewInit /\ CatalogInit /\ LayoutInit /\ CallInit /\ budget = MaxSystemEvents

NextSystem ==
    \/ ToggleEffects
    \/ ToggleMask
    \/ ToggleVmatOptions
    \/ GenerateImage
    \/ GenerateNumbers
    \/ Elapse
    \/ StartupTrigger
    \/ UpdatePreviewThreadLauncher
    \/ \E w \in WorkerIds : WorkerStart(w)
    \/ \E w \in WorkerIds : ThreadedRender(w)
    \/ \E w \in WorkerIds : ThreadedSave(w)
    \/ \E w \in WorkerIds : PerformSaveColor(w)
    \/ \E w \in WorkerIds : PerformSaveMask(w)
    \/ \E w \in WorkerIds : PerformSaveVmat(w)
    \/ \E w \in WorkerIds : ThreadedBatchNumbers(w)
    \/ \E w \in WorkerIds : PerformBatch(w)
    \/ ApplyPreview
    \/ GatherAndSave
    \/ BatchNumbersLogic
    \/ ShowSuccess
    \/ StopLoadingError

SpecSystem == InitSystem /\ [][NextSystem]_vars

\* ---------------------------------------------------------------- the layout arithmetic
\* One render of each pass for a canvas size, a position, a padding and a box
\* the rasterizer measured.
LayoutInputs ==
    [position : Positions,
     size : CanvasSizes,
     padding : (-MaxPad)..MaxPad,
     left : (-MaxOffset)..MaxOffset,
     top : (-MaxOffset)..MaxOffset,
     dw : (-MaxSlack)..MaxSlack,
     dh : (-MaxSlack)..MaxSlack]

\* the measured box of an input: size + dw wide, size + dh high
BoxOf(in) ==
    [left |-> in.left, top |-> in.top,
     right |-> in.left + in.size + in.dw, bottom |-> in.top + in.size + in.dh]

InitLayout ==
    /\ PreviewInit /\ CatalogInit /\ CallInit /\ budget = 0
    /\ \E in \in LayoutInputs : layoutIn = <<in>>
    /\ layoutOut = <<>>

\* both passes place the text of the request
PlaceBoth ==
    /\ layoutOut = <<>>
    /\ LET in == layoutIn[1]
       IN  layoutOut' = <<[color |-> ColorXY(in.position, in.size, BoxOf(in), in.padding),
                           mask |-> MaskXY(in.position, in.size, BoxOf(in), in.padding)]>>
    /\ UNCHANGED <<previewVars, catalogVars, layoutIn, callVars, hist, budget>>

NextLayout == PlaceBoth

SpecLayout == InitLayout /\ [][NextLayout]_vars

\* ================================================================ claims
\* ---------------------------------------------------------------- the font catalog
InitCatalog ==
    /\ PreviewInit /\ LayoutInit /\ CallInit /\ budget = 0
    /\ cacheFile \in InitialCaches
    /\ CatalogRest

NextCatalog ==
    \/ \E i \in 1..Len(scanThreads) : ScanExists(i)
    \/ \E i \in 1..Len(scanThreads) : ScanLoad(i)
    \/ \E i \in 1..Len(scanThreads) : ScanCacheNames(i)
    \/ \E i \in 1..Len(scanThreads) : ScanCachePaths(i)
    \/ \E i \in 1..Len(scanThreads) : ScanWalk(i)
    \/ \E i \in 1..Len(scanThreads) : ScanSetNames(i)
    \/ \E i \in 1..Len(scanThreads) : ScanSetPaths(i)
    \/ \E i \in 1..Len(scanThreads) : ScanSave(i)
    \/ RescanClearNames
    \/ RescanClearPaths
    \/ RescanRemove
    \/ RescanStart
    \/ ReadCatalog
    \/ Restart

SpecCatalog == InitCatalog /\ [][NextCatalog]_vars

\* ---------------------------------------------------------------- texture paths
\* how many directories an image path has below its root
MaxDepth == 2

n_materials   == <<"m","a","t","e","r","i","a","l","s">>
n_Materials   == <<"M","a","t","e","r","i","a","l","s">>
n_ui          == <<"u","i">>
n_x_materials == <<"x","\\","m","a","t","e","r","i","a","l","s">>
f_a_color     == <<"a","_","c","o","l","o","r",".","p","n","g">>
f_0_trans     == <<"0","_","t","r","a","n","s",".","p","n","g">>
f_a_b         == <<"a","\\","b",".","p","n","g">>

\* names of directories and of image files; a POSIX name may hold a backslash
DirNames == {n_materials, n_Materials, n_ui, n_x_materials}
FileNames == {f_a_color, f_0_trans, f_a_b}
HasBackslash(name) == \E i \in 1..Len(name) : name[i] = "\\"

\* an image file: on Windows (nt) or POSIX, in the directories dirs below the
\* root, outermost first
PathInputs ==
    {in \in [nt : BOOLEAN,
             dirs : UNION {[1..d -> DirNames] : d \in 0..MaxDepth},
             file : FileNames] :
        in.nt => /\ ~HasBackslash(in.file)
                 /\ \A k \in 1..Len(in.dirs) : ~HasBackslash(in.dirs[k])}

\* every segment preceded by the separator
RECURSIVE JoinAll(_, _)
JoinAll(segs, sep) ==
    IF segs = <<>> THEN <<>> ELSE <<sep>> \o Head(segs) \o JoinAll(Tail(segs), sep)

\* os.path.abspath(file name): the absolute path of the image
AbsolutePath(in) ==
    IF in.nt THEN <<"C", ":">> \o JoinAll(Append(in.dirs, in.file), "\\")
    ELSE JoinAll(Append(in.dirs, in.file), "/")

InitPaths ==
    /\ PreviewInit /\ CatalogInit /\ LayoutInit /\ budget = 0
    /\ \E in \in PathInputs : callIn = <<in>>
    /\ callOut = <<>>

\* get_relative_texture_path is called with the absolute path of the image
CallRelativeTexturePath ==
    /\ callOut = <<>>
    /\ callOut' = <<GetRelativeTexturePath(AbsolutePath(callIn[1]))>>
    /\ UNCHANGED <<previewVars, catalogVars, layoutVars, callIn, hist, budget>>

NextPaths == CallRelativeTexturePath

SpecPaths == InitPaths /\ [][NextPaths]_vars

\* ---------------------------------------------------------------- font handles
n_Arial   == <<"A","r","i","a","l">>
n_calibri == <<"c","a","l","i","b","r","i">>
n_filler  == <<"f">>
p_Arial   == <<"/","f","/","A","r","i","a","l",".","t","t","f">>

\* the pixel sizes asked for: the initial font size, and one more
FontSizes == {50, 51}

\* the catalogs a call may find: empty, with Arial, and one that is no dict
CallCatalogs == {[n \in {} |-> <<>>], [n \in {n_Arial} |-> p_Arial], NoneDict}

\* the memos a call may find: empty, one holding (Arial, 50), and one with
\* more than CacheLimit entries
CallCaches ==
    {EmptyCache,
     [k \in {<<n_Arial, 50>>} |-> [name |-> n_Arial, size |-> 50]],
     [k \in {<<n_filler, i>> : i \in 1..(CacheLimit + 1)} |-> [name |-> n_filler, size |-> k[2]]]}

FontCallInputs ==
    [font_name : {n_Arial, n_calibri}, size : FontSizes, paths : CallCatalogs,
     cache : CallCaches, loads : BOOLEAN]

InitFonts ==
    /\ PreviewInit /\ CatalogInit /\ LayoutInit /\ budget = 0
    /\ \E in \in FontCallInputs : callIn = <<in>>
    /\ callOut = <<>>

\* get_font_object is called
CallGetFontObject ==
    /\ callOut = <<>>
    /\ LET in == callIn[1]
       IN  callOut' = <<GetFontObjectCall(in.font_name, in.size, in.paths, in.cache, in.loads)>>
    /\ UNCHANGED <<previewVars, catalogVars, layoutVars, callIn, hist, budget>>

NextFonts == CallGetFontObject

SpecFonts == InitFonts /\ [][NextFonts]_vars

\* ---------------------------------------------------------------- preview scale
\* what winfo_width() and winfo_height() of the right panel report: 1 before
\* the window is laid out, then the size of the panel
PanelSizes == {1, 199, 200, 255, 259, 260, 316, 500, 660, 1084, 1100}

ScaleInputs == [size : CanvasSizes, panel_w : PanelSizes, panel_h : PanelSizes]

InitScale ==
    /\ PreviewInit /\ CatalogInit /\ LayoutInit /\ budget = 0
    /\ \E in \in ScaleInputs : callIn = <<in>>
    /\ callOut = <<>>

\* update_preview_thread_launcher reads the panel and _threaded_render scales
CallDisplaySize ==
    /\ callOut = <<>>
    /\ LET in == callIn[1]
           u == [ui EXCEPT !.size = in.size, !.panel_w = in.panel_w, !.panel_h = in.panel_h]
       IN  callOut' = <<[panel_w |-> PanelW(u), panel_h |-> PanelH(u),
                         display_size |-> DisplaySize(in.size, PanelW(u), PanelH(u))]>>
    /\ UNCHANGED <<previewVars, catalogVars, layoutVars, callIn, hist, budget>>

NextScale == CallDisplaySize

SpecScale == InitScale /\ [][NextScale]_vars

\* ---------------------------------------------------------------- handle memo
\* how many calls of get_font_object follow one another
MaxCalls == 2

\* a memo of n handles of one family
FilledCache(n) ==
    [k \in {<<n_filler, i>> : i \in 1..n} |-> [name |-> n_filler, size |-> k[2]]]

\* memos the program can have built up: empty, one handle, CacheLimit handles
\* and CacheLimit + 1 handles
MemoCaches ==
    {EmptyCache,
     [k \in {<<n_Arial, 50>>} |-> [name |-> n_Arial, size |-> 50]],
     FilledCache(CacheLimit), FilledCache(CacheLimit + 1)}

\* self._font_obj_cache and self.font_paths before a sequence of calls
InitMemo ==
    /\ PreviewInit /\ CatalogInit /\ LayoutInit /\ budget = 0
    /\ \E c \in MemoCaches, p \in CallCatalogs :
          callIn = <<[cache |-> c, paths |-> p, calls |-> 0]>>
    /\ callOut = <<>>

\* get_font_object is called with the family and size the widgets hold; callOut
\* keeps the key and the memo before the call next to what the call gave
MemoGet ==
    \E font_name \in {n_Arial, n_calibri}, size \in FontSizes, loads \in BOOLEAN :
        LET in == callIn[1]
            r == GetFontObjectCall(font_name, size, in.paths, in.cache, loads)
        IN  /\ in.calls < MaxCalls
            /\ callIn' = <<[in EXCEPT !.cache = r.cache, !.calls = @ + 1]>>
            /\ callOut' = <<[key |-> <<font_name, size>>, before |-> in.cache,
                             raised |-> r.raised, font |-> r.font, cache |-> r.cache]>>
            /\ UNCHANGED <<previewVars, catalogVars, layoutVars, hist, budget>>

NextMemo == MemoGet

SpecMemo == InitMemo /\ [][NextMemo]_vars

\* ---------------------------------------------------------------- directory scans
\* how many files a scanned directory tree holds
MaxFiles == 3

\* the files a tree may hold
ScanFiles ==
    { [root |-> dir_sys,  file |-> <<"A","r","i","a","l","-","B","o","l","d",".","t","t","f">>],
      [root |-> dir_user, file |-> <<"A","r","i","a","l",".","t","t","f">>],
      [root |-> dir_user, file |-> <<"A","r","i","a","l","B","o","l","d",".","o","t","f">>],
      [root |-> dir_sys,  file |-> <<"n","o","t","e","s",".","t","x","t">>],
      [root |-> dir_user, file |-> <<"Z","e","d","-","I","t","a","l","i","c",".","O","T","F">>] }

\* the traversals os.walk may make: every file once, in some order
Traversals ==
    {fs \in UNION {[1..n -> ScanFiles] : n \in 0..MaxFiles} :
        \A i, j \in 1..Len(fs) : fs[i] = fs[j] => i = j}

\* _scan_fonts_thread without a cache file: the catalog it publishes
ScanCatalog(fs) ==
    LET r == Walk(fs, Len(fs))
    IN  [available_fonts |-> SortedSet(Range(r.verified_fonts)),
         font_paths |-> r.temp_paths]

InitScan ==
    /\ PreviewInit /\ CatalogInit /\ LayoutInit /\ budget = 0
    /\ \E fs \in Traversals : callIn = <<[files |-> fs]>>
    /\ callOut = <<>>

\* the directories are scanned, and scanned again
CallScan ==
    /\ callOut = <<>>
    /\ callOut' = <<[first |-> ScanCatalog(callIn[1].files),
                     second |-> ScanCatalog(callIn[1].files)]>>
    /\ UNCHANGED <<previewVars, catalogVars, layoutVars, callIn, hist, budget>>

NextScan == CallScan

SpecScan == InitScan /\ [][NextScan]_vars

\* ---------------------------------------------------------------- name cleaning
\* how many style suffixes a base file name ends with
MaxSuffixes == 2

\* what a base file name starts with: no style suffix ends it
Stems == { <<"A">>, <<"N","o","t","o">>, <<"Z","e","d">> }

RECURSIVE ConcatSuffixes(_)
ConcatSuffixes(q) ==
    IF q = <<>> THEN <<>> ELSE Suffixes[Head(q)] \o ConcatSuffixes(Tail(q))

\* a font file: a stem, then the style suffixes sufs (indices into Suffixes)
CleanInputs ==
    [stem : Stems,
     sufs : UNION {[1..n -> 1..Len(Suffixes)] : n \in 0..MaxSuffixes}]

BaseName(in) == in.stem \o ConcatSuffixes(in.sufs)

InitClean ==
    /\ PreviewInit /\ CatalogInit /\ LayoutInit /\ budget = 0
    /\ \E in \in CleanInputs : callIn = <<in>>
    /\ callOut = <<>>

\* _scan_fonts_thread cleans the name of the file <base name>.ttf
CallCleanName ==
    /\ callOut = <<>>
    /\ callOut' = <<CleanName(SplitextRoot(BaseName(callIn[1]) \o ext_ttf))>>
    /\ UNCHANGED <<previewVars, catalogVars, layoutVars, callIn, hist, budget>>

NextClean == CallCleanName

SpecClean == InitClean /\ [][NextClean]_vars

\* ---------------------------------------------------------------- C1
\* C1: the sequence numbers of the frames installed in the visible preview
\* never decrease: a step that replaces the installed frame installs one whose
\* req_id is at least that of the frame it replaces.
C1_InstalledNonDecreasing ==
    [][(preview_image_ref # <<>> /\ preview_image_ref' # preview_image_ref)
         => preview_image_ref'[1].req_id >= preview_image_ref[1].req_id]_vars

\* two frames have been installed one after the other
C1_Witness == hist.installs = 2 /\ preview_image_ref # <<>>

\* ---------------------------------------------------------------- C2
\* C2: a submitted render carries the value preview_req_id has right after a
\* synchronous increment by one, so the tags of successive submissions strictly
\* increase; _apply_preview installs a result exactly when its tag equals
\* preview_req_id at that moment, every other result leaves the preview as it
\* is, and nothing else changes the preview.
C2_TagAndGuard ==
    [][ /\ (hist'.lastSubmit # hist.lastSubmit =>
              /\ hist'.lastSubmit[1].req.req_id = preview_req_id'
              /\ preview_req_id' = preview_req_id + 1
              /\ (hist.lastSubmit # <<>> =>
                    hist'.lastSubmit[1].req.req_id > hist.lastSubmit[1].req.req_id))
        /\ (hist'.lastApply # hist.lastApply =>
              LET a == hist'.lastApply[1]
              IN  /\ a.cur = preview_req_id
                  /\ IF a.tag = a.cur
                     THEN preview_image_ref' # <<>> /\ preview_image_ref'[1].req_id = a.tag
                     ELSE preview_image_ref' = preview_image_ref)
        /\ (preview_image_ref' # preview_image_ref =>
              hist'.lastApply # hist.lastApply)
      ]_vars

\* a stale result has been discarded while a frame is installed
C2_Witness ==
    /\ hist.dropped
    /\ preview_image_ref # <<>>
    /\ hist.lastApply[1].tag < hist.lastApply[1].cur

\* ---------------------------------------------------------------- C3
\* C3 as stated: whenever _apply_preview installs a frame, no
\* trigger_preview_update call has happened since that frame's request was
\* snapshotted (not even one whose debounce timer is still pending).
C3_NoChangeSinceSnapshot ==
    (hist.lastApply # <<>> /\ hist.lastApply[1].used)
        => hist.lastApply[1].version = hist.lastApply[1].curVersion

\* C3 as amended: whenever _apply_preview installs a frame, the frame's request
\* is the one snapshotted by the most recent run of
\* update_preview_thread_launcher: no later debounce expiry has happened, but
\* parameter changes whose debounce timer is still pending may have.
C3_LatestLaunchInstalled ==
    (hist.lastApply # <<>> /\ hist.lastApply[1].used)
        => hist.lastApply[1].version = hist.lastApply[1].launchVersion

\* a frame was installed although a later change was waiting for its timer
C3_Witness ==
    /\ hist.lastApply # <<>>
    /\ hist.lastApply[1].used
    /\ hist.lastApply[1].version < hist.lastApply[1].curVersion

C5_OneAtATime ==
    /\ Cardinality({w \in WorkerIds : Busy(w)}) <= 1
    /\ \A w \in WorkerIds : Busy(w) => Task(w).sub = hist.finished + 1
    /\ \A i \in 1..Len(workQueue) :
          workQueue[i].sub = hist.finished + Cardinality({w \in WorkerIds : Busy(w)}) + i

\* a preview render waits in the queue while an export is being written
C5_Witness ==
    /\ \E w \in WorkerIds : Busy(w) /\ Task(w).kind = "perform_save"
    /\ workQueue # <<>> /\ workQueue[1].kind = "render"

\* ---------------------------------------------------------------- C7
\* C7: the bitmap of a request is a function of the fields the request had
\* when it was snapshotted, the outline flag, outline width, text colour and
\* outline colour included: what the worker drew is what those values give.
C7_PureOfSnapshot ==
    /\ (hist.lastRender # <<>> =>
          LET r == hist.lastRender[1].req
          IN  hist.lastRender[1].image =
                CreateTextImagePil(r.text, r.size, r.font_obj, r.alignment, r.position,
                                   r.padding, r.line_spacing,
                                   LiveFields(hist.lastRender[1].snap)))
    /\ \A i \in 1..Len(hist.exports) :
          LET e == hist.exports[i]
              d == e.data
          IN  /\ (e.colorDraw # <<>> =>
                    e.colorDraw[1] =
                      CreateTextImagePil(d.text, d.size, d.font_obj, d.alignment, d.position,
                                         d.padding, d.line_spacing, LiveFields(e.snap)))
              /\ (e.maskDraw # <<>> =>
                    e.maskDraw[1] =
                      CreateMaskImage(d.text, d.size, d.font_obj, d.alignment, d.position,
                                      d.padding, d.line_spacing, LiveFields(e.snap)))

\* ---------------------------------------------------------------- C8
\* C8: in every export that writes a mask, the mask pass and the colour pass
\* draw the same text at the same (x, y) with the same alignment, line spacing
\* and stroke width.
C8_MaskMatchesColor ==
    \A i \in 1..Len(hist.exports) :
        LET e == hist.exports[i]
        IN  (e.ok /\ WritesMask(e.data)) =>
              LET c == e.colorDraw[1]
                  m == e.maskDraw[1]
              IN  /\ m.xy = c.xy
                  /\ m.text = c.text
                  /\ m.align = c.align
                  /\ m.spacing = c.spacing
                  /\ m.stroke_width = c.stroke_width

\* ---------------------------------------------------------------- C10
\* C10: a successful single export wrote <prefix>_color.png, wrote
\* <prefix>_trans.png exactly when the mask or the material was requested and
\* <prefix>.vmat exactly when the material was requested (three files with
\* both requested); the material file holds the shader name of the request
\* and two image references that start with materials/.
C10_ExportFiles ==
    \A i \in 1..Len(hist.exports) :
        LET e == hist.exports[i]
            base == e.base_path
            names == {f.name : f \in e.written}
        IN  e.ok =>
              /\ names = {base \o s_color_png}
                           \cup (IF e.data.mask \/ e.data.vmat THEN {base \o s_trans_png} ELSE {})
                           \cup (IF e.data.vmat THEN {base \o s_vmat} ELSE {})
              /\ ((e.data.mask /\ e.data.vmat) => Cardinality(names) = 3)
              /\ \A f \in e.written :
                    f.name = base \o s_vmat =>
                        /\ f.content.shader = e.data.shader
                        /\ StartsWith(f.content.TextureColor, s_materials)
                        /\ StartsWith(f.content.TextureTranslucency, s_materials)

\* an export with mask and material requested has produced its three files
C10_Witness ==
    \E i \in 1..Len(hist.exports) :
        LET e == hist.exports[i]
        IN  e.ok /\ e.data.mask /\ e.data.vmat /\ Cardinality(e.written) = 3


\* ---------------------------------------------------------------- C9
\* the rule each named position is expected to select
HRule(p) ==
    IF p \in {TopLeft, MiddleLeft, BottomLeft} THEN "left"
    ELSE IF p \in {TopRight, MiddleRight, BottomRight} THEN "right"
    ELSE "center"
VRule(p) ==
    IF p \in {TopLeft, TopCenter, TopRight} THEN "top"
    ELSE IF p \in {BottomLeft, BottomCenter, BottomRight} THEN "bottom"
    ELSE "middle"

\* xy is the expected placement; exact: the centre rules are exact halves
PlacedAsExpected(xy, in, exact) ==
    LET w == in.size + in.dw
        h == in.size + in.dh
        halves(d) == IF exact THEN {d} ELSE {d, d - 1}
    IN  /\ CASE HRule(in.position) = "left"  -> xy.x = in.padding - in.left
              [] HRule(in.position) = "right" -> xy.x = in.size - w - in.left - in.padding
              [] OTHER -> 2 * (xy.x + in.left) \in halves(in.size - w)
        /\ CASE VRule(in.position) = "top"    -> xy.y = in.padding - in.top
              [] VRule(in.position) = "bottom" -> xy.y = in.size - h - in.top - in.padding
              [] OTHER -> 2 * (xy.y + in.top) \in halves(in.size - h)

\* C9 as stated: both passes place the text by the nine positions' rules, the
\* centre rules being x = (canvasSize - w)/2 - left and
\* y = (canvasSize - h)/2 - top exactly.
C9_ExactHalves ==
    layoutOut # <<>> =>
        /\ PlacedAsExpected(layoutOut[1].color, layoutIn[1], TRUE)
        /\ PlacedAsExpected(layoutOut[1].mask, layoutIn[1], TRUE)

\* C9 as amended: the same, the centre rules flooring the half:
\* x = floor((canvasSize - w)/2) - left and y = floor((canvasSize - h)/2) - top,
\* for negative differences too; no clamping, negative padding included.
C9_FlooredHalves ==
    layoutOut # <<>> =>
        /\ PlacedAsExpected(layoutOut[1].color, layoutIn[1], FALSE)
        /\ PlacedAsExpected(layoutOut[1].mask, layoutIn[1], FALSE)

\* a box wider than the canvas by an odd amount has been centred, with a
\* negative padding
C9_Witness ==
    /\ layoutOut # <<>>
    /\ layoutIn[1].position = BottomCenter
    /\ layoutIn[1].dw = 1
    /\ layoutIn[1].padding < 0
    /\ layoutOut[1].color = layoutOut[1].mask


\* ---------------------------------------------------------------- C6
\* C6: a reader of the catalog never sees a name list and a path mapping of
\* different publications: both were written by the same load, scan or
\* clearing (or both are still the initial ones).
C6_AtomicCatalog ==
    observed # <<>> => observed[1].namesOf = observed[1].pathsOf


\* ---------------------------------------------------------------- C11
\* C11: a failure while exporting one digit does not abort the batch: once
\* the batch is over, the colour image of every digit other than the failing
\* one has been written.
C11_BatchContinues ==
    \A k \in 1..Len(hist.batches) :
        LET b == hist.batches[k]
        IN  \A i \in 0..(BatchCount - 1) :
              (b.failedAt = <<>> \/ b.failedAt[1] # i) =>
                  \E f \in files : f.name = BatchBase(b.directory, i) \o s_color_png


\* ---------------------------------------------------------------- C12
\* C12: when a file write of a single export fails, the step that ends the
\* export hands exactly one error callback carrying the text of the failure to
\* the controlling thread and no _show_success, and when the controlling thread
\* runs that callback _stop_loading_error reports the error; the files the
\* export wrote before stay as they are. No step ever removes a written file.
C12_FailureReported ==
    [][ /\ (hist'.exports # hist.exports =>
              LET e == hist'.exports[Len(hist'.exports)]
              IN  /\ Len(hist'.exports) = Len(hist.exports) + 1
                  /\ Len(afterQueue') = Len(afterQueue) + 1
                  /\ SubSeq(afterQueue', 1, Len(afterQueue)) = afterQueue
                  /\ LET cb == afterQueue'[Len(afterQueue')]
                     IN  IF e.ok
                         THEN cb.kind = "success" /\ e.err = <<>>
                         ELSE /\ e.err # <<>>
                              /\ cb.kind = "error"
                              /\ cb.msg = StrOfError(e.err[1])
                              /\ e.err[1].filename \notin {f.name : f \in e.written}
                              /\ files' = files
                              /\ e.written \subseteq files')
        /\ \A f \in files : \E g \in files' : g.name = f.name
        /\ (/\ afterQueue # <<>>
            /\ Head(afterQueue).kind = "error"
            /\ afterQueue' = Tail(afterQueue)) => progress' = "error"
      ]_vars


\* ---------------------------------------------------------------- C13
\* the reference the rule of the claim gives for the image file `file` in the
\* directories dirs: from the first directory named materials on, else
\* materials/<parent>/<file>
RuleReference(dirs, file) ==
    LET hits == {k \in 1..Len(dirs) : dirs[k] = n_materials}
        first == CHOOSE k \in hits : \A j \in hits : k <= j
        parent == IF dirs = <<>> THEN <<>> ELSE dirs[Len(dirs)]
    IN  IF hits # {}
        THEN n_materials \o JoinAll(Append(SubSeq(dirs, first + 1, Len(dirs)), file), "/")
        ELSE n_materials \o JoinAll(<<parent, file>>, "/")

\* the segments of s between the separators sep
RECURSIVE Split(_, _)
Split(s, sep) ==
    IF \E i \in 1..Len(s) : s[i] = sep
    THEN LET i == CHOOSE k \in 1..Len(s) : s[k] = sep /\ \A j \in 1..(k - 1) : s[j] # sep
         IN  <<SubSeq(s, 1, i - 1)>> \o Split(SubSeq(s, i + 1, Len(s)), sep)
    ELSE <<s>>

\* the names of an absolute path when every backslash is read as a separator
NormalizedNames(path) == Tail(Split(ReplaceChar(NoDrive(path), "\\", "/"), "/"))

\* C13 as stated: for an image below a directory named materials the result
\* is the path from the first such directory on, for any other image it is
\* materials/<parent-dir-name>/<filename>; it always starts with materials/
\* and ends with the name of the image file.
C13_RelativePath ==
    callOut # <<>> =>
        LET in == callIn[1]
            r == callOut[1]
        IN  /\ r = RuleReference(in.dirs, in.file)
            /\ StartsWith(r, s_materials)
            /\ EndsWith(r, in.file)

\* C13 as amended: the rule is applied to the path with every backslash
\* replaced by a slash, on every platform: its names are the pieces between
\* the slashes, the last one taken as the file name. The result always starts
\* with materials/ and ends with that last piece; for a path none of whose
\* names holds a backslash (every Windows path) this is the rule as stated.
C13_RelativePathNormalized ==
    callOut # <<>> =>
        LET in == callIn[1]
            r == callOut[1]
            names == NormalizedNames(AbsolutePath(in))
            file == names[Len(names)]
            dirs == SubSeq(names, 1, Len(names) - 1)
        IN  /\ r = RuleReference(dirs, file)
            /\ StartsWith(r, s_materials)
            /\ EndsWith(r, file)
            /\ ((~HasBackslash(in.file) /\ \A k \in 1..Len(in.dirs) : ~HasBackslash(in.dirs[k]))
                  => r = RuleReference(in.dirs, in.file) /\ EndsWith(r, in.file))

\* the reference of a Windows image below two nested materials directories
\* starts at the outer one
C13_Witness ==
    /\ callOut # <<>>
    /\ callIn[1].nt
    /\ callIn[1].dirs = <<n_materials, n_materials>>
    /\ callOut[1] = n_materials \o <<"/">> \o n_materials \o <<"/">> \o callIn[1].file


\* ---------------------------------------------------------------- C14
\* C14: get_font_object never fails: it returns a font; when the font name is
\* not in the catalog or its file does not load, that font is the built-in
\* default font and the memo is left as it was; the default font is never
\* stored in the memo.
C14_NeverFails ==
    callOut # <<>> =>
        LET in == callIn[1]
            out == callOut[1]
        IN  /\ ~out.raised
            /\ out.font # <<>>
            /\ ((in.paths = NoneDict \/ in.font_name \notin DOMAIN in.paths \/ ~in.loads)
                    => out.font = <<DefaultFont>> /\ out.cache = in.cache)
            /\ \A k \in DOMAIN out.cache : out.cache[k] # DefaultFont


\* ---------------------------------------------------------------- C15
\* C15: the catalog of a scan has exactly the non-empty cleaned names of the
\* font files traversed; each name is mapped to the path of the first file in
\* traversal order that cleans to it, whatever files with that cleaned name
\* follow; the name list holds every name once; a second scan of the same
\* traversal gives the same catalog.
C15_FirstPathWins ==
    callOut # <<>> =>
        LET fs == callIn[1].files
            cat == callOut[1].first
            Clean(i) == CleanName(SplitextRoot(fs[i].file))
            fonts == {i \in 1..Len(fs) : IsFontFile(fs[i].file) /\ Clean(i) # <<>>}
            FirstOf(n) == CHOOSE i \in fonts :
                              Clean(i) = n /\ \A j \in fonts : Clean(j) = n => i <= j
        IN  /\ DOMAIN cat.font_paths = {Clean(i) : i \in fonts}
            /\ \A n \in DOMAIN cat.font_paths :
                  cat.font_paths[n] = PathJoin(fs[FirstOf(n)].root, fs[FirstOf(n)].file)
            /\ Range(cat.available_fonts) = DOMAIN cat.font_paths
            /\ Len(cat.available_fonts) = Cardinality(DOMAIN cat.font_paths)
            /\ callOut[1].second = cat

\* three files that clean to Arial were traversed, Arial.ttf last, and the
\* catalog has the path of the first
C15_Witness ==
    /\ callOut # <<>>
    /\ Len(callIn[1].files) = 3
    /\ \A i \in 1..3 : CleanName(SplitextRoot(callIn[1].files[i].file)) = n_Arial
    /\ callIn[1].files[3].root = dir_user
    /\ callIn[1].files[1].root = dir_sys
    /\ callOut[1].first.font_paths = [n \in {n_Arial} |-> PathJoin(dir_sys, callIn[1].files[1].file)]


\* ---------------------------------------------------------------- C16
\* C16: a base name made of a stem and one style suffix (Regular, Bold, Italic,
\* -Regular, -Bold or -Italic) is cleaned to the stem, the hyphen of a
\* hyphenated suffix removed with it; a base name without a suffix is left as
\* it is; from any name at most one suffix of the list is cut off.
C16_CleanOneSuffix ==
    callOut # <<>> =>
        LET in == callIn[1]
            r == callOut[1]
        IN  /\ (Len(in.sufs) = 0 => r = in.stem)
            /\ (Len(in.sufs) = 1 => r = in.stem)
            /\ (r = BaseName(in) \/ \E i \in 1..Len(Suffixes) : BaseName(in) = r \o Suffixes[i])

---------------------------------------------------------------------------
\* Font cache round trip

\* what a scan of the font directories produces
FreshScan == ScanCatalog(FontFiles)

\* every scan thread has returned and no rescan is under way
ScansFinished ==
    /\ rescanPc = "idle"
    /\ \A i \in 1..Len(scanThreads) : scanThreads[i].pc = "done"

\* this run of the program found a cache file that a scan of the run before
\* had saved, loaded it, and nobody asked for a rescan since
LoadedSavedCache ==
    /\ stamps.run > 0
    /\ stamps.startCache # <<>>
    /\ stamps.startCache[1].by > 0
    /\ rescans = stamps.rescans0
    /\ ScansFinished
    /\ scanThreads[1].loaded

\* the distinct cleaned names of the font files in the directories
DistinctNames ==
    { CleanName(SplitextRoot(FontFiles[i].file)) :
        i \in { j \in 1..Len(FontFiles) : IsFontFile(FontFiles[j].file) } } \ {<<>>}

\* C17: with font directories of N distinct cleaned names and no collisions
\* (here N = 3), a scan, a successful save of the cache file and a load of that
\* file by the next run of _scan_fonts_thread give a catalog of exactly N
\* entries whose sorted name list and name-to-path mapping are the scan's.
C17_RoundTrip ==
    LoadedSavedCache =>
        /\ Len(available_fonts) = Cardinality(DistinctNames)
        /\ available_fonts = FreshScan.available_fonts
        /\ font_paths = FreshScan.font_paths

---------------------------------------------------------------------------
\* Bad cache files

\* the cache file cannot be parsed, or is not an object with a list "names" and
\* an object "paths"
BadCache(c) ==
    \/ ~c.valid
    \/ c.has # {"names", "paths"}
    \/ c.paths = NoneDict

\* this run of the program found a bad cache file, its scan thread has
\* returned, and nobody asked for a rescan
StartedWithBadCache ==
    /\ stamps.startCache # <<>>
    /\ BadCache(stamps.startCache[1])
    /\ rescans = stamps.rescans0
    /\ ScansFinished

\* C18: a cache file that exists but cannot be parsed, or lacks the names/paths
\* structure, is a cache miss: the scan thread does the full directory scan and
\* the catalog it leaves is exactly the scan result, with nothing of the bad
\* file in it.
C18_BadCacheIsMiss ==
    StartedWithBadCache =>
        /\ ~scanThreads[1].loaded
        /\ available_fonts = FreshScan.available_fonts
        /\ font_paths = FreshScan.font_paths

---------------------------------------------------------------------------
\* Rescan

\* a rescan was requested in this run of the program and every scan thread,
\* the earlier ones included, has returned
RescanFinished ==
    /\ rescans > stamps.rescans0
    /\ ScansFinished

\* C19: after a rescan the catalog that is installed once all scan threads have
\* returned is the result of a fresh directory scan, not the content of the
\* earlier cache file, also when the rescan was requested while an earlier
\* scan thread was still running.
C19_RescanAuthoritative ==
    RescanFinished =>
        /\ available_fonts = FreshScan.available_fonts
        /\ font_paths = FreshScan.font_paths

---------------------------------------------------------------------------
\* Failing preview render

\* C20: a preview render that raises on the worker is only logged: the step
\* hands no callback to the controlling thread, leaves the installed preview
\* and preview_req_id as they are and frees the worker for the next task; no
\* apply callback for a render that raised is ever pending.
C20_RenderFailureOnlyLogged ==
    [][ /\ (hist'.raisedReqs # hist.raisedReqs =>
              /\ afterQueue' = afterQueue
              /\ preview_image_ref' = preview_image_ref
              /\ preview_req_id' = preview_req_id
              /\ workQueue' = workQueue
              /\ \E w \in DOMAIN running :
                    /\ Busy(w) /\ Task(w).kind = "render"
                    /\ running' = [running EXCEPT ![w] = <<>>])
        /\ \A i \in 1..Len(afterQueue') :
              afterQueue'[i].kind = "apply" => afterQueue'[i].req_id \notin hist'.raisedReqs
      ]_vars

\* a render raised, and the worker has since run a later render, whose frame
\* _apply_preview has installed
C20_Witness ==
    /\ hist.raisedReqs # {}
    /\ preview_image_ref # <<>>
    /\ hist.lastApply # <<>>
    /\ hist.lastApply[1].used
    /\ \E q \in hist.raisedReqs : hist.lastApply[1].tag > q

---------------------------------------------------------------------------
\* Empty text

\* C21: on the preview path and on the export path alike empty text is
\* replaced by a single space before the bounding box is measured: no render
\* handed to the worker and no colour or mask pass of an export gets an empty
\* string.
C21_NeverEmptyText ==
    /\ (hist.lastSubmit # <<>> => hist.lastSubmit[1].req.text # <<>>)
    /\ (hist.lastRender # <<>> => hist.lastRender[1].req.text # <<>>)
    /\ \A i \in 1..Len(hist.exports) :
          (hist.exports[i].colorDraw # <<>> \/ hist.exports[i].maskDraw # <<>>)
              => hist.exports[i].data.text # <<>>

---------------------------------------------------------------------------
\* Handle memo eviction

\* C22: a call of get_font_object that inserts a newly loaded handle while the
\* memo holds more than 50 handles clears the whole memo first, so that the new
\* handle is the only one left; with 50 handles or fewer it only adds the new
\* one; a call that inserts nothing (a hit included) leaves the memo as it
\* is; the memo never holds more than 51 handles.
C22_BulkEviction ==
    /\ Cardinality(DOMAIN callIn[1].cache) <= CacheLimit + 1
    /\ callOut # <<>> =>
          LET o == callOut[1]
              inserted == o.key \notin DOMAIN o.before /\ o.key \in DOMAIN o.cache
          IN  /\ o.key \in DOMAIN o.before => (o.cache = o.before /\ o.font = <<o.before[o.key]>>)
              /\ ~inserted => o.cache = o.before
              /\ inserted =>
                    /\ DOMAIN o.cache =
                          IF Cardinality(DOMAIN o.before) > CacheLimit
                          THEN {o.key}
                          ELSE DOMAIN o.before \cup {o.key}
                    /\ \A k \in DOMAIN o.cache \ {o.key} : o.cache[k] = o.before[k]

\* the second call of a sequence found 51 handles memoized and inserted a new
\* one, which is now the only one
C22_Witness ==
    /\ callOut # <<>>
    /\ Cardinality(DOMAIN callOut[1].before) = CacheLimit + 1
    /\ DOMAIN callOut[1].cache = {callOut[1].key}
    /\ callIn[1].calls = 2

---------------------------------------------------------------------------
\* Preview scale

\* the height of the panel that is left for the preview
AreaHeight(panel_h) == panel_h - 60

\* C23 as stated: the displayed size never exceeds the canvas size, never
\* exceeds the smaller dimension of the display area the panel reports unless
\* it is the floor of 100 pixels, and is never below that floor.
C23_FitsReportedArea ==
    callOut # <<>> =>
        LET in == callIn[1]
            d == callOut[1].display_size
        IN  /\ d <= in.size
            /\ d <= Min(in.panel_w, AreaHeight(in.panel_h)) \/ d = 100
            /\ d >= 100

\* C23: the displayed size never exceeds the canvas size, never exceeds the
\* smaller dimension of the display area, a reported width or remaining height
\* below 200 pixels counting as 500, unless it is the floor of 100 pixels, and
\* is never below that floor.
C23_FitsAssumedArea ==
    callOut # <<>> =>
        LET in == callIn[1]
            w == IF in.panel_w < 200 THEN 500 ELSE in.panel_w
            h == IF AreaHeight(in.panel_h) < 200 THEN 500 ELSE AreaHeight(in.panel_h)
            d == callOut[1].display_size
        IN  /\ d <= in.size
            /\ d <= Min(w, h) \/ d = 100
            /\ d >= 100

\* a canvas of 1024 pixels shown in a panel whose smaller side leaves 256
C23_Witness ==
    /\ callOut # <<>>
    /\ callIn[1].size = 1024
    /\ callIn[1].panel_h = 316
    /\ callIn[1].panel_w >= 260
    /\ callOut[1].display_size = 256

---------------------------------------------------------------------------
\* Preview liveness

\* C24: every increment of preview_req_id is followed by a submitted render
\* carrying that value: the counter is the tag of the last submitted render
\* (0 while none was submitted), so that the frame of the final parameter
\* values is not discarded by _apply_preview.
C24_CounterIsLastTag ==
    preview_req_id = IF hist.lastSubmit = <<>> THEN 0
                     ELSE hist.lastSubmit[1].req.req_id

---------------------------------------------------------------------------
\* Export outcome

\* nothing of the program is pending or running
Quiescent ==
    /\ workQueue = <<>>
    /\ afterQueue = <<>>
    /\ \A w \in DOMAIN running : ~Busy(w)

\* C25: every export started by generate_image or generate_numbers delivers
\* one of _show_success and _stop_loading_error to the controlling thread: once
\* nothing is pending any more, the progress indicator started at submission
\* has been stopped.
C25_OutcomeDelivered ==
    Quiescent => progress # "busy"

---------------------------------------------------------------------------
\* Catalog consistency

\* a scan thread has returned after a directory scan, or after loading a cache
\* file that a scan thread had saved
ScanOrSavedLoadDone ==
    \E i \in 1..Len(scanThreads) :
        /\ scanThreads[i].pc = "done"
        /\ \/ ~scanThreads[i].loaded
           \/ scanThreads[i].data[1].by > 0

\* C26: whenever no scan thread is running and a scan, or a load of a cache
\* file written by save, has completed, available_fonts is sorted, has no
\* duplicate and no empty name, and is exactly the key set of font_paths.
C26_CatalogConsistent ==
    (ScansFinished /\ ScanOrSavedLoadDone) =>
        /\ \A i \in 1..(Len(available_fonts) - 1) :
              StrLess(available_fonts[i], available_fonts[i + 1])
        /\ \A i \in 1..Len(available_fonts) : available_fonts[i] # <<>>
        /\ Range(available_fonts) = DOMAIN font_paths

====
